---- MODULE Spec2Model ----
(***************************************************************************)
(* Orchestration core of be-more-agent-android: the background wake-word   *)
(* service (services/wakeword_service.py) and the foreground agent screen  *)
(* (main.py): microphone arbitration, dialogue state, speech queue.        *)
(***************************************************************************)
EXTENDS Integers, Sequences, FiniteSets, TLC

\* ------------------------------------------------------------------ bounds
\* messages the environment puts on the service port in SpecSvc
MaxMsgs == 3
\* wake_detected messages the service may emit
MaxWakes == 1
\* runnables the listen loop lets pile up on the main Looper before it posts more
MaxLooper == 2
\* turn threads (_listen_and_respond / chat_and_respond) a run can hold
MaxTurns == 2
\* turns the user starts in a run of SpecApp or SpecArb
SoloTurns == 1
\* chunks the model streams in one turn
MaxTokens == 2
\* callbacks pending on the Clock beyond which whoever schedules one waits for
\* the next frame
MaxClock == 2
\* chunks in a stream whose segmentation is checked
MaxStream == 3

\* ------------------------------------------------------------------ names
None == "None"

PAUSE == "pause_listening"
RESUME == "resume_listening"
STOP == "stop_service"
ServiceMsgs == {PAUSE, RESUME, STOP}

\* A text is a sequence of characters.
\* str.lower() over the characters used here
lower(c) ==
    LET Upper == <<"A", "B", "C", "D", "E", "F", "G", "H", "I", "J", "K", "L", "M",
                   "N", "O", "P", "Q", "R", "S", "T", "U", "V", "W", "X", "Y", "Z">>
        Lower == <<"a", "b", "c", "d", "e", "f", "g", "h", "i", "j", "k", "l", "m",
                   "n", "o", "p", "q", "r", "s", "t", "u", "v", "w", "x", "y", "z">>
    IN IF \E i \in DOMAIN Upper : Upper[i] = c
          THEN Lower[CHOOSE i \in DOMAIN Upper : Upper[i] = c]
          ELSE c
Lowered(s) == [i \in 1 .. Len(s) |-> lower(s[i])]

\* sub in s
Contains(s, sub) ==
    \E i \in 1 .. (Len(s) - Len(sub) + 1) : SubSeq(s, i, i + Len(sub) - 1) = sub

\* load_wake_phrase(): the configured phrase, lower-cased; here "hey"
wake_phrase == Lowered(<<"H", "e", "y">>)

\* transcripts the recognizer may deliver to the service: "a HEY", which
\* holds the wake phrase in another case, and "he y", which does not hold it
WakeText == <<"a", " ", "H", "E", "Y">>
OtherText == <<"h", "e", " ", "y">>
Transcripts == {WakeText, OtherText}

\* result_holder['text'] without a transcript: None (or ''), which fails `if text`
NoTranscript == <<>>

\* SpeechRecognizer error codes the listen loop dispatches on
ERROR_CLIENT == 5
ERROR_NO_MATCH == 7
ERROR_BUSY_11 == 11
ErrorCodes == {ERROR_CLIENT, ERROR_NO_MATCH, ERROR_BUSY_11}

VARIABLES
    \* ---- wake-word service process
    running,        \* threading.Event running
    paused,         \* threading.Event paused
    result_event,   \* threading.Event result_event
    result_holder,  \* {'text':..., 'error':...}
    svc_pc,         \* position of the listen loop
    backoff,        \* tenths of a second slept at the end of the last iteration
    looper,         \* runnables posted to the service's main Looper, in order
    lr_pc,          \* ListenRunnable.run: "idle" | "starting" (past the paused check)
    bgActive,       \* a recognition attempt started by the service is in progress
    toSvc,          \* OSC messages in flight to the service port (3002)
    toApp,          \* number of /wake_detected messages in flight to the app port
    wakesSent,      \* /wake_detected messages emitted so far
    delivered,      \* the last two messages the service handled (history)
    envSent,        \* messages injected by the environment (SpecSvc)
    \* ---- foreground app (AgentScreen)
    current_state,          \* self.current_state
    setBy,                  \* who scheduled the update that set current_state (history)
    clock,                  \* callbacks scheduled with Clock.schedule_once, in order
    interrupted,            \* threading.Event interrupted
    thinking_sound_active,  \* threading.Event thinking_sound_active
    recording_active,       \* threading.Event recording_active
    tts_active,             \* threading.Event tts_active
    tts_queue,              \* self.tts_queue
    worker,                 \* the _tts_worker thread: position and the popped text
    llm,                    \* self.llm is not None
    session_memory,         \* self.session_memory
    permanent_memory,       \* self.permanent_memory
    memory_file,            \* contents of memory.json
    th,                     \* the turn threads (_listen_and_respond / chat_and_respond)
    nstarted,               \* turn threads started so far
    quota,                  \* turns the user may still start in this run
    \* ---- the stream loop of chat_and_respond on texts (SpecSeg)
    seg,                    \* the stream and the loop's locals
    \* ---- the _warmup thread step by step (SpecWarm)
    boot,                   \* its position, the engines it created, workers started
    \* ---- one call of ActionRouter.execute (SpecRoute)
    rt                      \* its request, its locals and its outcome

svcCore == <<running, paused, result_event, result_holder, svc_pc, backoff,
             looper, lr_pc, bgActive, wakesSent, delivered, envSent>>

svcVars == <<svcCore, toSvc, toApp>>

appVars == <<current_state, setBy, clock, interrupted, thinking_sound_active,
             recording_active, tts_active, tts_queue, worker, llm, session_memory,
             permanent_memory, memory_file, th, nstarted, quota>>

vars == <<svcVars, appVars, seg, boot, rt>>

\* ------------------------------------------------------------------ service

\* result_holder as the loop resets it; `sent` is history: a /wake_detected
\* was sent for the transcript held
NoResult == [text |-> NoTranscript, error |-> 0, sent |-> FALSE]

SvcInit ==
    /\ running = TRUE
    /\ paused = FALSE
    /\ result_event = FALSE
    /\ result_holder = NoResult
    /\ svc_pc = "loop"
    /\ backoff = 0
    /\ looper = <<>>
    /\ lr_pc = "idle"
    /\ bgActive = FALSE
    /\ toSvc = <<>>
    /\ toApp = 0
    /\ wakesSent = 0
    /\ delivered = <<None, None>>
    /\ envSent = 0

Handled(m) == delivered' = <<delivered[2], m>>

\* @osc_server.address(b'/stop_service')
on_stop ==
    /\ running' = FALSE
    /\ result_event' = TRUE
    /\ UNCHANGED <<rt, boot, seg, paused, looper>>

\* a faulty pause handler that flips the flag instead of setting it: the
\* idempotence property C3 must reject it
on_pause_toggle ==
    /\ paused' = ~paused
    /\ result_event' = TRUE
    /\ looper' = Append(looper, "stop")
    /\ UNCHANGED running

\* @osc_server.address(b'/pause_listening')
on_pause ==
    /\ paused' = TRUE
    /\ result_event' = TRUE
    /\ looper' = Append(looper, "stop")
    /\ UNCHANGED running

\* @osc_server.address(b'/resume_listening')
on_resume ==
    /\ paused' = FALSE
    /\ UNCHANGED <<rt, boot, seg, running, result_event, looper>>

\* The OSC server thread takes the next datagram and runs its handler.
SvcDeliver ==
    /\ toSvc # <<>>
    /\ toSvc' = Tail(toSvc)
    /\ Handled(Head(toSvc))
    /\ \/ Head(toSvc) = STOP /\ on_stop
       \/ Head(toSvc) = PAUSE /\ on_pause
       \/ Head(toSvc) = RESUME /\ on_resume
    /\ UNCHANGED <<rt, boot, seg, appVars, result_holder, svc_pc, backoff, lr_pc, bgActive, toApp,
                   wakesSent, envSent>>

\* while running.is_set(): if paused.is_set(): sleep(0.1); continue
LoopTop ==
    /\ svc_pc = "loop"
    /\ \/ ~running /\ svc_pc' = "cleanup"
       \/ running /\ paused /\ svc_pc' = "loop"
       \/ running /\ ~paused /\ svc_pc' = "post"
    /\ UNCHANGED <<rt, boot, seg, appVars, running, paused, result_event, result_holder, backoff, looper,
                   lr_pc, bgActive, toSvc, toApp, wakesSent, delivered, envSent>>

\* result_event.clear(); result_holder reset; main_handler.post(listen)
LoopPost ==
    /\ svc_pc = "post"
    /\ Len(looper) < MaxLooper
    /\ result_event' = FALSE
    /\ result_holder' = NoResult
    /\ looper' = Append(looper, "listen")
    /\ svc_pc' = "wait"
    /\ UNCHANGED <<rt, boot, seg, appVars, running, paused, backoff, lr_pc, bgActive, toSvc, toApp,
                   wakesSent, delivered, envSent>>

\* result_event.wait(timeout=10): returns when the event is set or on timeout
LoopWait ==
    /\ svc_pc = "wait"
    /\ \/ result_event
       \/ ~result_event
    /\ svc_pc' = "inspect"
    /\ UNCHANGED <<rt, boot, seg, appVars, running, paused, result_event, result_holder, backoff, looper,
                   lr_pc, bgActive, toSvc, toApp, wakesSent, delivered, envSent>>

\* wake_phrase in text.lower()
ContainsWake(text) == Contains(Lowered(text), wake_phrase)

\* the back-off slept after an iteration, in tenths of a second
BackoffFor(error) ==
    IF error = ERROR_CLIENT THEN 20
    ELSE IF error = ERROR_BUSY_11 THEN 10
    ELSE 3

\* a faulty inspection that does not look at the paused flag: the wake
\* property C28 must reject it
LoopInspect_unpaused ==
    /\ svc_pc = "inspect"
    /\ running
    /\ IF result_holder.text # NoTranscript /\ ContainsWake(result_holder.text)
          THEN /\ toApp' = toApp + 1
               /\ wakesSent' = wakesSent + 1
               /\ result_holder' = [result_holder EXCEPT !.sent = TRUE]
          ELSE UNCHANGED <<toApp, wakesSent, result_holder>>
    /\ backoff' = BackoffFor(result_holder.error)
    /\ svc_pc' = "backoff"
    /\ UNCHANGED <<rt, boot, seg, appVars, running, paused, result_event, looper, lr_pc,
                   bgActive, toSvc, delivered, envSent>>

\* if not running: break; inspect the transcript; emit /wake_detected
LoopInspect ==
    /\ svc_pc = "inspect"
    /\ \/ /\ ~running
          /\ svc_pc' = "cleanup"
          /\ UNCHANGED <<toApp, wakesSent, backoff, result_holder>>
       \/ /\ running
          /\ IF result_holder.text # NoTranscript /\ ~paused
                /\ ContainsWake(result_holder.text)
                THEN /\ toApp' = toApp + 1
                     /\ wakesSent' = wakesSent + 1
                     /\ result_holder' = [result_holder EXCEPT !.sent = TRUE]
                ELSE UNCHANGED <<toApp, wakesSent, result_holder>>
          /\ backoff' = BackoffFor(result_holder.error)
          /\ svc_pc' = "backoff"
    /\ UNCHANGED <<rt, boot, seg, appVars, running, paused, result_event, looper, lr_pc,
                   bgActive, toSvc, delivered, envSent>>

\* time.sleep(back-off), then the next iteration
LoopBackoff ==
    /\ svc_pc = "backoff"
    /\ svc_pc' = "loop"
    /\ UNCHANGED <<rt, boot, seg, appVars, running, paused, result_event, result_holder, backoff, looper,
                   lr_pc, bgActive, toSvc, toApp, wakesSent, delivered, envSent>>

\* recognizer.destroy(); osc_server.stop_all()
LoopCleanup ==
    /\ svc_pc = "cleanup"
    /\ svc_pc' = "exited"
    /\ bgActive' = FALSE
    /\ toSvc' = <<>>
    /\ UNCHANGED <<rt, boot, seg, appVars, running, paused, result_event, result_holder, backoff, looper,
                   lr_pc, toApp, wakesSent, delivered, envSent>>

\* ListenRunnable.run, first half: if paused.is_set(): result_event.set(); return
ListenRunnable_check ==
    /\ looper # <<>> /\ Head(looper) = "listen" /\ lr_pc = "idle"
    /\ looper' = Tail(looper)
    /\ IF paused
          THEN result_event' = TRUE /\ lr_pc' = "idle"
          ELSE result_event' = result_event /\ lr_pc' = "starting"
    /\ UNCHANGED <<rt, boot, seg, appVars, running, paused, result_holder, svc_pc, backoff, bgActive,
                   toSvc, toApp, wakesSent, delivered, envSent>>

\* ListenRunnable.run, second half: recognizer.startListening(intent), or the
\* except branch that sets result_event
ListenRunnable_start ==
    /\ lr_pc = "starting"
    /\ lr_pc' = "idle"
    /\ \/ bgActive' = TRUE /\ UNCHANGED result_event
       \/ result_event' = TRUE /\ UNCHANGED bgActive
    /\ UNCHANGED <<rt, boot, seg, appVars, running, paused, result_holder, svc_pc, backoff, looper,
                   toSvc, toApp, wakesSent, delivered, envSent>>

\* StopListenRunnable.run: recognizer.stopListening()
StopListenRunnable_run ==
    /\ looper # <<>> /\ Head(looper) = "stop" /\ lr_pc = "idle"
    /\ looper' = Tail(looper)
    /\ UNCHANGED <<rt, boot, seg, appVars, running, paused, result_event, result_holder, svc_pc, backoff,
                   lr_pc, bgActive, toSvc, toApp, wakesSent, delivered, envSent>>

\* ServiceRecognitionListener.onResults
onResults ==
    /\ bgActive /\ lr_pc = "idle"
    /\ \E t \in Transcripts \cup {NoTranscript} :
          /\ ContainsWake(t) => wakesSent < MaxWakes
          /\ result_holder' = [text |-> t, error |-> 0, sent |-> FALSE]
    /\ result_event' = TRUE
    /\ bgActive' = FALSE
    /\ UNCHANGED <<rt, boot, seg, appVars, running, paused, svc_pc, backoff, looper, lr_pc, toSvc, toApp,
                   wakesSent, delivered, envSent>>

\* ServiceRecognitionListener.onError
onError ==
    /\ bgActive /\ lr_pc = "idle"
    /\ \E e \in ErrorCodes : result_holder' = [text |-> NoTranscript, error |-> e, sent |-> FALSE]
    /\ result_event' = TRUE
    /\ bgActive' = FALSE
    /\ UNCHANGED <<rt, boot, seg, appVars, running, paused, svc_pc, backoff, looper, lr_pc, toSvc, toApp,
                   wakesSent, delivered, envSent>>

SvcNext ==
    \/ SvcDeliver
    \/ LoopTop
    \/ LoopPost
    \/ LoopWait
    \/ LoopInspect
    \/ LoopBackoff
    \/ LoopCleanup
    \/ ListenRunnable_check
    \/ ListenRunnable_start
    \/ StopListenRunnable_run
    \/ onResults
    \/ onError

\* The app side seen from the service: any of the three commands may arrive.
EnvSend ==
    /\ envSent < MaxMsgs
    /\ svc_pc # "exited"
    /\ \E m \in ServiceMsgs : toSvc' = Append(toSvc, m)
    /\ envSent' = envSent + 1
    /\ UNCHANGED <<rt, boot, seg, appVars, running, paused, result_event, result_holder, svc_pc, backoff,
                   looper, lr_pc, bgActive, toApp, wakesSent, delivered>>

\* The app takes a /wake_detected datagram off its port.
EnvTakeWake ==
    /\ toApp > 0
    /\ toApp' = toApp - 1
    /\ UNCHANGED <<rt, boot, seg, appVars, running, paused, result_event, result_holder, svc_pc, backoff,
                   looper, lr_pc, bgActive, toSvc, wakesSent, delivered, envSent>>


\* ------------------------------------------------------------------ app

IDLE == "idle"
LISTENING == "listening"
THINKING == "thinking"
SPEAKING == "speaking"
ERROR == "error"
CAPTURING == "capturing"
WARMUP == "warmup"
BotStates == {IDLE, LISTENING, THINKING, SPEAKING, ERROR, CAPTURING, WARMUP}

\* What the user said, by the branch of chat_and_respond it selects: a reset
\* phrase, a phrase _detect_intent maps to a tool, or anything else.
TextKinds == {"reset", "time", "camera", "search", "chat"}

\* _detect_intent on those classes of text
detect_intent(kind) ==
    CASE kind = "time" -> "get_time"
      [] kind = "camera" -> "capture_image"
      [] kind = "search" -> "search_web"
      [] OTHER -> None

\* chunks the model may stream: plain words, bare sentence punctuation, words
\* that end a sentence ("you?"), the opener of a JSON object
TokenKinds == {"word", "punct", "sentence", "json"}

CHAT_FALLBACK == "CHAT_FALLBACK"
IMAGE_CAPTURE_TRIGGERED == "IMAGE_CAPTURE_TRIGGERED"
INVALID_ACTION == "INVALID_ACTION"
SEARCH_EMPTY == "SEARCH_EMPTY"
SEARCH_ERROR == "SEARCH_ERROR"
RAW_RESULT == "RAW_RESULT"
ToolResults == {CHAT_FALLBACK, IMAGE_CAPTURE_TRIGGERED, INVALID_ACTION,
                SEARCH_EMPTY, SEARCH_ERROR, RAW_RESULT}

\* ActionRouter.execute: the results an action can produce
execute(action) ==
    CASE action = "get_time" -> {RAW_RESULT}
      [] action = "capture_image" -> {IMAGE_CAPTURE_TRIGGERED}
      [] action = "search_web" -> {SEARCH_EMPTY, SEARCH_ERROR, RAW_RESULT}
      [] OTHER -> {CHAT_FALLBACK, INVALID_ACTION}

Threads == 1 .. MaxTurns

SystemTurn == [role |-> "system", turn |-> 0, content |-> <<>>]

Unborn ==
    [pc |-> "unborn", src |-> None, kind |-> None, ctx |-> None,
     is_action_mode |-> FALSE, sentence_buffer |-> FALSE, full_response |-> <<>>,
     chunk |-> None, nenq |-> 0, saw |-> FALSE, late |-> {}, pre |-> "no",
     pauses |-> 0, resumes |-> 0, after |-> {}, cleared |-> {}, kept |-> {}, queue_empty |-> FALSE,
     raised |-> FALSE, parsed |-> None, routed |-> 0]

\* len(conv) > 10: conv = conv[-10:]
HistoryLimit == 10

\* memory.json absent, or present and not parseable as JSON
NoFile == <<>>

\* load_chat_history: the parsed file, or the bare system prompt
load_chat_history(file) == IF file = NoFile THEN <<SystemTurn>> ELSE file

\* what memory.json may hold at a launch: nothing, a bare system prompt, a
\* system prompt and as many past turns as a save keeps
OldTurns == [i \in 1 .. HistoryLimit |->
                [role |-> IF i % 2 = 1 THEN "user" ELSE "assistant", turn |-> 0,
                 content |-> <<i>>]]
StoredFiles == {NoFile, <<SystemTurn>>, <<SystemTurn>> \o OldTurns}

\* text = None in _tts_worker: nothing popped
NoText == [turn |-> 0, n |-> 0, text |-> None]

\* AgentScreen.__init__ and on_enter in a process that finds memory.json = file
AppBoot(file) ==
    /\ current_state = WARMUP
    /\ setBy = 0
    /\ clock = <<>>
    /\ interrupted = FALSE
    /\ thinking_sound_active = FALSE
    /\ recording_active = FALSE
    /\ tts_active = FALSE
    /\ tts_queue = <<>>
    /\ worker = [pc |-> "off", text |-> NoText]
    /\ llm = FALSE
    /\ session_memory = <<>>
    /\ permanent_memory = load_chat_history(file)
    /\ memory_file = file
    /\ th = [t \in Threads |-> Unborn]
    /\ nstarted = 0

\* the app as first launched after a reset wrote memory.json
AppInit == AppBoot(<<SystemTurn>>)

\* set_state(state): Clock.schedule_once(_update)
set_state(q, state, by) == Append(q, [s |-> state, by |-> by, irq |-> FALSE])

Alive(t) == th[t].pc \notin {"unborn", "done"}

\* threading.Thread(target=...).start() for the next turn
Spawn(pc0, src, kind) ==
    /\ quota > 0
    /\ quota' = quota - 1
    /\ nstarted' = nstarted + 1
    /\ th' = [th EXCEPT ![nstarted + 1] =
                 [Unborn EXCEPT !.pc = pc0, !.src = src, !.kind = kind,
                                !.after = {t \in Threads : th[t].pc = "done"}]]

\* _warmup as one step: create the engines, start the _tts_worker, schedule
\* WARMUP -> IDLE (SpecWarm follows the thread statement by statement)
warmup ==
    /\ worker.pc = "off"
    /\ llm' \in BOOLEAN
    /\ worker' = [pc |-> "poll", text |-> NoText]
    /\ clock' = set_state(clock, IDLE, 0)
    /\ UNCHANGED <<rt, boot, seg, svcVars, current_state, setBy, interrupted, thinking_sound_active,
                   recording_active, tts_active, tts_queue, session_memory,
                   permanent_memory, memory_file, th, nstarted, quota>>

\* the ranks of turn t's utterances that stand in the Speech Queue
Queued(t) == {tts_queue[i].n : i \in {j \in DOMAIN tts_queue : tts_queue[j].turn = t}}

\* a faulty interrupt that forgets tts_queue.clear(): the clearing property
\* C13 must reject it
on_mic_press_keep ==
    /\ Len(clock) < MaxClock
    /\ current_state \in {SPEAKING, THINKING}
    /\ interrupted' = TRUE
    /\ thinking_sound_active' = FALSE
    /\ clock' = Append(clock, [s |-> IDLE, by |-> 0, irq |-> TRUE])
    /\ th' = [t \in Threads |->
                 [th[t] EXCEPT
                    !.pre = IF Alive(t) /\ @ = "no" THEN "pressed" ELSE @,
                    !.cleared = @ \cup Queued(t),
                          !.kept = IF worker.pc = "popped" /\ worker.text.turn = t
                                      THEN @ \cup {worker.text.n} ELSE @]]
    /\ UNCHANGED <<rt, boot, seg, svcVars, current_state, setBy, recording_active, tts_active,
                   tts_queue, worker, llm, session_memory, permanent_memory,
                   memory_file, nstarted, quota>>

\* on_mic_press: interrupt, stop push-to-talk recording, or start a turn
on_mic_press ==
    /\ Len(clock) < MaxClock
    /\ \/ /\ current_state \in {SPEAKING, THINKING}
          /\ interrupted' = TRUE
          /\ thinking_sound_active' = FALSE
          /\ tts_queue' = <<>>
          /\ clock' = Append(clock, [s |-> IDLE, by |-> 0, irq |-> TRUE])
          /\ th' = [t \in Threads |->
                       [th[t] EXCEPT
                          !.pre = IF Alive(t) /\ @ = "no" THEN "pressed" ELSE @,
                          !.cleared = @ \cup Queued(t),
                          !.kept = IF worker.pc = "popped" /\ worker.text.turn = t
                                      THEN @ \cup {worker.text.n} ELSE @]]
          /\ UNCHANGED <<recording_active, nstarted, quota>>
       \/ /\ current_state = LISTENING
          /\ recording_active
          /\ recording_active' = FALSE
          /\ UNCHANGED <<interrupted, thinking_sound_active, tts_queue, clock, th,
                         nstarted, quota>>
       \/ /\ current_state = IDLE
          /\ recording_active' = TRUE
          /\ clock' = set_state(clock, LISTENING, 0)
          /\ Spawn("begin", "mic", None)
          /\ UNCHANGED <<interrupted, thinking_sound_active, tts_queue>>
    /\ UNCHANGED <<rt, boot, seg, svcVars, current_state, setBy, tts_active, worker, llm,
                   session_memory, permanent_memory, memory_file>>

\* on_debug_send: typed text goes straight to chat_and_respond
on_debug_send ==
    /\ Len(clock) < MaxClock
    /\ current_state = IDLE
    /\ interrupted' = FALSE
    /\ clock' = set_state(clock, THINKING, 0)
    /\ \E kind \in TextKinds : Spawn("chat", "debug", kind)
    /\ UNCHANGED <<rt, boot, seg, svcVars, current_state, setBy, thinking_sound_active,
                   recording_active, tts_active, tts_queue, worker, llm,
                   session_memory, permanent_memory, memory_file>>

\* on_mic_release: push-to-talk release stops the recording
on_mic_release ==
    /\ recording_active
    /\ recording_active' = FALSE
    /\ UNCHANGED <<rt, boot, seg, svcVars, current_state, setBy, clock, interrupted,
                   thinking_sound_active, tts_active, tts_queue, worker, llm,
                   session_memory, permanent_memory, memory_file, th, nstarted, quota>>

\* on_wake (OSC /wake_detected): Clock.schedule_once(_on_wake_detected)
on_wake ==
    /\ toApp > 0
    /\ toApp' = toApp - 1
    /\ clock' = Append(clock, [s |-> "wake", by |-> 0, irq |-> FALSE])
    /\ UNCHANGED <<rt, boot, seg, svcCore, toSvc, current_state, setBy, interrupted,
                   thinking_sound_active, recording_active, tts_active, tts_queue,
                   worker, llm, session_memory, permanent_memory, memory_file, th,
                   nstarted, quota>>

\* set_state's _update callback, run by the Clock on the UI thread
update ==
    /\ clock # <<>>
    /\ Head(clock).s # "wake"
    /\ clock' = Tail(clock)
    /\ current_state' = Head(clock).s
    /\ setBy' = Head(clock).by
    /\ th' = [t \in Threads |->
                 IF Head(clock).irq /\ th[t].pre = "pressed"
                    THEN [th[t] EXCEPT !.pre = "idle"] ELSE th[t]]
    /\ UNCHANGED <<rt, boot, seg, svcVars, interrupted, thinking_sound_active, recording_active,
                   tts_active, tts_queue, worker, llm, session_memory,
                   permanent_memory, memory_file, nstarted, quota>>

\* a faulty wake handler without the IDLE guard: the start property C20 must
\* reject it
on_wake_detected_any ==
    /\ clock # <<>>
    /\ Head(clock).s = "wake"
    /\ recording_active' = TRUE
    /\ clock' = set_state(Tail(clock), LISTENING, 0)
    /\ Spawn("begin", "wake", None)
    /\ UNCHANGED <<rt, boot, seg, svcVars, current_state, setBy, interrupted, thinking_sound_active,
                   tts_active, tts_queue, worker, llm, session_memory,
                   permanent_memory, memory_file>>

\* _on_wake_detected, run by the Clock on the UI thread
on_wake_detected ==
    /\ clock # <<>>
    /\ Head(clock).s = "wake"
    /\ \/ /\ current_state # IDLE
          /\ clock' = Tail(clock)
          /\ UNCHANGED <<recording_active, th, nstarted, quota>>
       \/ /\ current_state = IDLE
          /\ recording_active' = TRUE
          /\ clock' = set_state(Tail(clock), LISTENING, 0)
          /\ Spawn("begin", "wake", None)
    /\ UNCHANGED <<rt, boot, seg, svcVars, current_state, setBy, interrupted, thinking_sound_active,
                   tts_active, tts_queue, worker, llm, session_memory,
                   permanent_memory, memory_file>>

\* a faulty worker that takes the newest entry (list.pop() for list.pop(0)):
\* the ordering property C12 must reject it
tts_worker_pop_last ==
    /\ worker.pc = "poll"
    /\ tts_queue # <<>>
    /\ tts_queue' = SubSeq(tts_queue, 1, Len(tts_queue) - 1)
    /\ tts_active' = TRUE
    /\ worker' = IF tts_queue[Len(tts_queue)].text # ""
                    THEN [pc |-> "popped", text |-> tts_queue[Len(tts_queue)]]
                    ELSE [pc |-> "poll", text |-> NoText]
    /\ UNCHANGED <<rt, boot, seg, svcVars, current_state, setBy, clock, interrupted,
                   thinking_sound_active, recording_active, llm, session_memory,
                   permanent_memory, memory_file, th, nstarted, quota>>

\* a faulty worker that pops under the lock and leaves tts_active clear: the
\* drain property C38 must reject it
tts_worker_pop_unset ==
    /\ worker.pc = "poll"
    /\ tts_queue # <<>>
    /\ tts_queue' = Tail(tts_queue)
    /\ worker' = IF Head(tts_queue).text # ""
                    THEN [pc |-> "popped", text |-> Head(tts_queue)]
                    ELSE [pc |-> "poll", text |-> NoText]
    /\ UNCHANGED <<rt, boot, seg, svcVars, current_state, setBy, clock, interrupted,
                   thinking_sound_active, recording_active, tts_active, llm,
                   session_memory, permanent_memory, memory_file, th, nstarted, quota>>

\* _tts_worker: with the lock held, pop the front of the queue and set tts_active
tts_worker_pop ==
    /\ worker.pc = "poll"
    /\ tts_queue # <<>>
    /\ tts_queue' = Tail(tts_queue)
    /\ tts_active' = TRUE
    /\ worker' = IF Head(tts_queue).text # ""
                    THEN [pc |-> "popped", text |-> Head(tts_queue)]
                    ELSE [pc |-> "poll", text |-> NoText]
    /\ UNCHANGED <<rt, boot, seg, svcVars, current_state, setBy, clock, interrupted,
                   thinking_sound_active, recording_active, llm, session_memory,
                   permanent_memory, memory_file, th, nstarted, quota>>

\* _tts_worker: self.tts.speak(text, wait=True) begins
tts_worker_speak ==
    /\ worker.pc = "popped"
    /\ worker' = [worker EXCEPT !.pc = "speaking"]
    /\ UNCHANGED <<rt, boot, seg, svcVars, current_state, setBy, clock, interrupted,
                   thinking_sound_active, recording_active, tts_active, tts_queue,
                   llm, session_memory, permanent_memory, memory_file, th, nstarted, quota>>

\* _tts_worker: speak returned (completed, timed out or stopped); tts_active.clear()
tts_worker_done ==
    /\ worker.pc = "speaking"
    /\ worker' = [pc |-> "poll", text |-> NoText]
    /\ tts_active' = FALSE
    /\ UNCHANGED <<rt, boot, seg, svcVars, current_state, setBy, clock, interrupted,
                   thinking_sound_active, recording_active, tts_queue, llm,
                   session_memory, permanent_memory, memory_file, th, nstarted, quota>>


\* ------------------------------------------------------------------ turns

LastN(q, n) == IF Len(q) > n THEN SubSeq(q, Len(q) - n + 1, Len(q)) ELSE q

\* a faulty save that keeps the newest turns without putting the system
\* prompt back in front: the anchoring property C18 must reject it
save_chat_history_tail(file, perm, sess) ==
    LET full == perm \o sess
    IN IF full = <<>> THEN file
       ELSE LastN(full, HistoryLimit)

\* a faulty save that cuts the conversation one turn too late (conv[-11:]):
\* the persistence property C40 must reject it
save_chat_history_long(file, perm, sess) ==
    LET full == perm \o sess
    IN IF full = <<>> THEN file
       ELSE <<full[1]>> \o LastN(Tail(full), HistoryLimit + 1)

\* save_chat_history: what memory.json holds afterwards
save_chat_history(file, perm, sess) ==
    LET full == perm \o sess
    IN IF full = <<>> THEN file
       ELSE <<full[1]>> \o LastN(Tail(full), HistoryLimit)

UserTurn(t) == [role |-> "user", turn |-> t, content |-> <<th[t].kind>>]
AssistantTurn(t, content) == [role |-> "assistant", turn |-> t, content |-> content]

\* _speak_text(text): the entry appended to tts_queue
Utterance(t, text) == [turn |-> t, n |-> th[t].nenq + 1, text |-> text]
speak_text(q, t, text) == Append(q, Utterance(t, text))

\* work a turn did after it had observed the interrupt flag (history)
Did(t, w) == IF th[t].saw THEN th[t].late \cup w ELSE th[t].late

\* where a return from chat_and_respond leads: the finally block of
\* _listen_and_respond, or the end of a thread started by on_debug_send
Return(t) == IF th[t].src = "debug" THEN "return" ELSE "finally"
\* where an exception that leaves chat_and_respond leads
Raise(t) == IF th[t].src = "debug" THEN "return" ELSE "except"

\* the thread's frame is gone: its locals no longer exist
Ended(r) ==
    [r EXCEPT !.pc = "done", !.kind = None, !.ctx = None, !.is_action_mode = FALSE,
              !.sentence_buffer = FALSE, !.full_response = <<>>, !.chunk = None]

\* a step of turn t that touches only the clock, the speech queue, the
\* thinking-sound flag and the session memory
Turn(t, r, c, q, ts, sm) ==
    /\ Len(c) <= MaxClock
    /\ th' = [th EXCEPT ![t] = r]
    /\ clock' = c
    /\ tts_queue' = q
    /\ thinking_sound_active' = ts
    /\ session_memory' = sm
    /\ UNCHANGED <<rt, boot, seg, svcVars, current_state, setBy, interrupted, recording_active,
                   tts_active, worker, llm, permanent_memory, memory_file, nstarted, quota>>

\* _listen_and_respond: self._pause_wake_service()
listen_pause(t) ==
    /\ th[t].pc = "begin"
    /\ toSvc' = Append(toSvc, PAUSE)
    /\ th' = [th EXCEPT ![t].pc = "grace", ![t].pauses = @ + 1]
    /\ UNCHANGED <<rt, boot, seg, svcCore, toApp, current_state, setBy, clock, interrupted,
                   thinking_sound_active, recording_active, tts_active, tts_queue,
                   worker, llm, session_memory, permanent_memory, memory_file,
                   nstarted, quota>>

\* _listen_and_respond: time.sleep(0.8), then stt.listen(timeout=30) starts
listen_start(t) ==
    /\ th[t].pc = "grace"
    /\ Turn(t, [th[t] EXCEPT !.pc = "listening"], clock, tts_queue,
            thinking_sound_active, session_memory)

\* a faulty handler that answers silence with a spoken notice: the frame
\* property C21 must reject it
listen_heard_notice(t) ==
    /\ th[t].pc = "listening"
    /\ recording_active' = FALSE
    /\ \/ /\ Len(clock) < MaxClock
          /\ clock' = set_state(clock, IDLE, t)
          /\ tts_queue' = speak_text(tts_queue, t, "Didn't catch that.")
          /\ th' = [th EXCEPT ![t].pc = "finally", ![t].nenq = @ + 1]
          /\ UNCHANGED interrupted
       \/ /\ \E kind \in TextKinds :
                th' = [th EXCEPT ![t].pc = "chat", ![t].kind = kind]
          /\ interrupted' = FALSE
          /\ UNCHANGED <<clock, tts_queue>>
    /\ UNCHANGED <<rt, boot, seg, svcVars, current_state, setBy, thinking_sound_active, tts_active,
                   worker, llm, session_memory, permanent_memory,
                   memory_file, nstarted, quota>>

\* _listen_and_respond: stt.listen returned (text, or None on silence/timeout)
listen_heard(t) ==
    /\ th[t].pc = "listening"
    /\ recording_active' = FALSE
    /\ \/ /\ Len(clock) < MaxClock
          /\ clock' = set_state(clock, IDLE, t)
          /\ th' = [th EXCEPT ![t].pc = "finally"]
          /\ UNCHANGED interrupted
       \/ /\ \E kind \in TextKinds :
                th' = [th EXCEPT ![t].pc = "chat", ![t].kind = kind]
          /\ interrupted' = FALSE
          /\ UNCHANGED clock
    /\ UNCHANGED <<rt, boot, seg, svcVars, current_state, setBy, thinking_sound_active, tts_active,
                   tts_queue, worker, llm, session_memory, permanent_memory,
                   memory_file, nstarted, quota>>

\* a faulty handler whose except branch returns without reaching the finally
\* block: the resume property C2 must reject it
listen_except_return(t) ==
    /\ th[t].pc = "except"
    /\ Turn(t, Ended(th[t]), set_state(clock, ERROR, t),
            tts_queue, thinking_sound_active, session_memory)

\* _listen_and_respond: except Exception: set_state(ERROR)
listen_except(t) ==
    /\ th[t].pc = "except"
    /\ Turn(t, [th[t] EXCEPT !.pc = "finally"], set_state(clock, ERROR, t),
            tts_queue, thinking_sound_active, session_memory)

\* _listen_and_respond: finally: self._resume_wake_service()
listen_finally(t) ==
    /\ th[t].pc = "finally"
    /\ toSvc' = Append(toSvc, RESUME)
    /\ th' = [th EXCEPT ![t] = Ended([th[t] EXCEPT !.resumes = @ + 1])]
    /\ UNCHANGED <<rt, boot, seg, svcCore, toApp, current_state, setBy, clock, interrupted,
                   thinking_sound_active, recording_active, tts_active, tts_queue,
                   worker, llm, session_memory, permanent_memory, memory_file,
                   nstarted, quota>>

\* chat_and_respond, memory reset command: self.session_memory = []
chat_reset(t) ==
    /\ th[t].pc = "chat"
    /\ th[t].kind = "reset"
    /\ session_memory' = <<>>
    /\ th' = [th EXCEPT ![t].pc = "reset_perm"]
    /\ UNCHANGED <<rt, boot, seg, svcVars, current_state, setBy, clock, interrupted,
                   thinking_sound_active, recording_active, tts_active, tts_queue,
                   worker, llm, permanent_memory, memory_file, nstarted, quota>>

\* chat_and_respond, memory reset command: self.permanent_memory = [system
\* prompt]; save_chat_history(...)
chat_reset_permanent(t) ==
    /\ th[t].pc = "reset_perm"
    /\ permanent_memory' = <<SystemTurn>>
    /\ memory_file' = save_chat_history(memory_file, <<SystemTurn>>, session_memory)
    /\ th' = [th EXCEPT ![t].pc = "reset_speak"]
    /\ UNCHANGED <<rt, boot, seg, svcVars, current_state, setBy, clock, interrupted,
                   thinking_sound_active, recording_active, tts_active, tts_queue,
                   worker, llm, session_memory, nstarted, quota>>

\* chat_and_respond, memory reset command: _speak_text(...); set_state(IDLE); return
chat_reset_speak(t) ==
    /\ th[t].pc = "reset_speak"
    /\ Turn(t, [th[t] EXCEPT !.pc = Return(t), !.nenq = @ + 1,
                             !.late = Did(t, {"enqueue"})],
            set_state(clock, IDLE, t), speak_text(tts_queue, t, "Okay. Memory wiped."),
            thinking_sound_active, session_memory)

\* chat_and_respond: set_state(THINKING), append the user turn, then the branch
\* on the language model and on _detect_intent
chat_begin(t) ==
    /\ th[t].pc = "chat"
    /\ th[t].kind # "reset"
    /\ \/ /\ ~llm
          /\ Turn(t, [th[t] EXCEPT !.pc = "nollm_speak"],
                  set_state(set_state(clock, THINKING, t), SPEAKING, t), tts_queue,
                  FALSE, Append(session_memory, UserTurn(t)))
       \/ /\ llm
          /\ detect_intent(th[t].kind) # None
          /\ Turn(t, [th[t] EXCEPT !.pc = "exec", !.ctx = "intent", !.routed = @ + 1],
                  set_state(clock, THINKING, t), tts_queue, FALSE,
                  Append(session_memory, UserTurn(t)))
       \/ /\ llm
          /\ detect_intent(th[t].kind) = None
          /\ Turn(t, [th[t] EXCEPT !.pc = "stream", !.ctx = "stream"],
                  set_state(clock, THINKING, t), tts_queue, TRUE,
                  Append(session_memory, UserTurn(t)))

\* a faulty fallback that speaks the placeholder and forgets set_state(IDLE):
\* the fallback property C23 must reject it
chat_nollm_speak_stay(t) ==
    /\ th[t].pc = "nollm_speak"
    /\ Turn(t, [th[t] EXCEPT !.pc = Return(t), !.nenq = @ + 1,
                             !.late = Did(t, {"enqueue"})],
            clock, speak_text(tts_queue, t, "Sorry"),
            thinking_sound_active, session_memory)

\* chat_and_respond without a model: _speak_text(placeholder); set_state(IDLE)
chat_nollm_speak(t) ==
    /\ th[t].pc = "nollm_speak"
    /\ Turn(t, [th[t] EXCEPT !.pc = Return(t), !.nenq = @ + 1,
                             !.late = Did(t, {"enqueue"})],
            set_state(clock, IDLE, t), speak_text(tts_queue, t, "Sorry"),
            thinking_sound_active, session_memory)

\* _speak_response(text): flag cleared, set_state(SPEAKING), _speak_text(text)
speak_response(t, pc1, text, more, sm) ==
    Turn(t, [th[t] EXCEPT !.pc = pc1, !.nenq = @ + 1,
                          !.late = Did(t, {"enqueue"} \cup more)],
         set_state(clock, SPEAKING, t), speak_text(tts_queue, t, text), FALSE, sm)

\* the results router.execute may return here: for the intent found in the
\* user's text, or for whatever action the model's JSON names
Routed(t) ==
    IF th[t].ctx = "intent" THEN execute(detect_intent(th[t].kind))
    ELSE ToolResults

\* router.execute(action_data), then _handle_tool_result up to its first wait;
\* or execute raises, as it does on a model object whose "action" is no string
handle_tool_result(t) ==
    /\ th[t].pc = "exec"
    /\ \/ \E result \in Routed(t) :
             \/ /\ result = CHAT_FALLBACK
                /\ speak_response(t, "wait", "chat text", {"route", "append"},
                                  Append(session_memory, AssistantTurn(t, <<"chat">>)))
             \/ /\ result = IMAGE_CAPTURE_TRIGGERED
                /\ Turn(t, [th[t] EXCEPT !.pc = "capture", !.late = Did(t, {"route"})],
                        set_state(clock, CAPTURING, t), tts_queue,
                        thinking_sound_active, session_memory)
             \/ /\ result \in {INVALID_ACTION, SEARCH_EMPTY, SEARCH_ERROR}
                /\ speak_response(t, "wait", "canned", {"route"}, session_memory)
             \/ /\ result = RAW_RESULT
                /\ Turn(t, [th[t] EXCEPT !.pc = "summarize", !.late = Did(t, {"route"})],
                        set_state(clock, THINKING, t), tts_queue,
                        thinking_sound_active, session_memory)
       \/ /\ th[t].ctx = "stream"
          /\ Turn(t, [th[t] EXCEPT !.pc = "error"], clock, tts_queue,
                  thinking_sound_active, session_memory)

\* a faulty capture step that returns without a word when there is no camera:
\* the capture property C24 must reject it
capture_image_silent(t) ==
    /\ th[t].pc = "capture"
    /\ \/ speak_response(t, "wait", "I captured an image", {"append"},
                         Append(session_memory, AssistantTurn(t, <<"image">>)))
       \/ speak_response(t, "wait", "I couldn't capture an image.", {}, session_memory)
       \/ Turn(t, [th[t] EXCEPT !.pc = "wait"], clock, tts_queue,
               thinking_sound_active, session_memory)

\* _handle_tool_result: camera.capture_image() returned a path or nothing, or
\* there is no camera
capture_image(t) ==
    /\ th[t].pc = "capture"
    /\ \/ speak_response(t, "wait", "I captured an image", {"append"},
                         Append(session_memory, AssistantTurn(t, <<"image">>)))
       \/ speak_response(t, "wait", "I couldn't capture an image.", {}, session_memory)
       \/ speak_response(t, "wait", "Camera not available.", {}, session_memory)

\* _handle_tool_result: the summarising llm.chat(stream=False) returned or raised
summarize(t) ==
    /\ th[t].pc = "summarize"
    /\ \/ \E text \in {"summary", ""} :
             speak_response(t, "wait", text, {"append"},
                            Append(session_memory, AssistantTurn(t, <<text>>)))
       \/ /\ th[t].ctx = "stream"
          /\ Turn(t, [th[t] EXCEPT !.pc = "error"], clock, tts_queue,
                  thinking_sound_active, session_memory)
       \/ /\ th[t].ctx = "intent"
          /\ Turn(t, [th[t] EXCEPT !.pc = Raise(t)], clock, tts_queue,
                  thinking_sound_active, session_memory)

\* for chunk in stream: the next chunk arrives and the interrupt flag is read,
\* or the stream ends, or the model raises
stream_next(t) ==
    /\ th[t].pc = "stream"
    /\ \/ /\ Len(th[t].full_response) < MaxTokens
          /\ \E k \in TokenKinds :
                IF interrupted
                   THEN Turn(t, [th[t] EXCEPT !.pc = "stream_end", !.saw = TRUE],
                             clock, tts_queue, thinking_sound_active, session_memory)
                   ELSE Turn(t, [th[t] EXCEPT !.pc = "body", !.chunk = k],
                             clock, tts_queue, thinking_sound_active, session_memory)
       \/ Turn(t, [th[t] EXCEPT !.pc = "stream_end"], clock, tts_queue,
               thinking_sound_active, session_memory)
       \/ Turn(t, [th[t] EXCEPT !.pc = "error", !.raised = TRUE], clock, tts_queue,
               thinking_sound_active, session_memory)

\* a faulty loop body that shows and buffers a word without adding it to the
\* accumulated response: the recording property C26 must reject it
stream_body_skip(t) ==
    /\ th[t].pc = "body"
    /\ th[t].chunk = "word"
    /\ ~th[t].is_action_mode
    /\ Turn(t, [th[t] EXCEPT !.pc = "stream", !.chunk = None, !.sentence_buffer = TRUE],
            IF current_state # SPEAKING THEN set_state(clock, SPEAKING, t) ELSE clock,
            tts_queue, FALSE, session_memory)

\* the loop body for one chunk
stream_body(t) ==
    /\ th[t].pc = "body"
    /\ LET full == Append(th[t].full_response, th[t].chunk)
           shown == IF current_state # SPEAKING
                       THEN set_state(clock, SPEAKING, t) ELSE clock
       IN \/ /\ th[t].chunk = "json"
             /\ Turn(t, [th[t] EXCEPT !.pc = "stream", !.chunk = None,
                                      !.full_response = full, !.is_action_mode = TRUE],
                     clock, tts_queue, FALSE, session_memory)
          \/ /\ th[t].chunk # "json"
             /\ th[t].is_action_mode
             /\ Turn(t, [th[t] EXCEPT !.pc = "stream", !.chunk = None,
                                      !.full_response = full],
                     clock, tts_queue, thinking_sound_active, session_memory)
          \/ /\ th[t].chunk = "word"
             /\ ~th[t].is_action_mode
             /\ Turn(t, [th[t] EXCEPT !.pc = "stream", !.chunk = None,
                                      !.full_response = full, !.sentence_buffer = TRUE],
                     shown, tts_queue, FALSE, session_memory)
          \/ /\ th[t].chunk \in {"punct", "sentence"}
             /\ ~th[t].is_action_mode
             /\ IF th[t].sentence_buffer \/ th[t].chunk = "sentence"
                   THEN Turn(t, [th[t] EXCEPT !.pc = "stream", !.chunk = None,
                                     !.full_response = full, !.sentence_buffer = FALSE,
                                     !.nenq = @ + 1, !.late = Did(t, {"enqueue"})],
                             shown, speak_text(tts_queue, t, "sentence"), FALSE,
                             session_memory)
                   ELSE Turn(t, [th[t] EXCEPT !.pc = "stream", !.chunk = None,
                                     !.full_response = full],
                             shown, tts_queue, FALSE, session_memory)

\* _speak_response's text when no action can be taken from the model's output
Unsure == "I'm not sure what to do with that."

\* a faulty end of stream that also records the raw action text as an
\* assistant turn when nothing usable was parsed: C25 must reject it
stream_end_record(t) ==
    /\ th[t].pc = "stream_end"
    /\ th[t].is_action_mode
    /\ \E data \in {"empty", "none"} :
          Turn(t, [th[t] EXCEPT !.pc = "wait", !.parsed = data, !.nenq = @ + 1,
                                !.late = Did(t, {"enqueue"})],
               set_state(clock, SPEAKING, t),
               speak_text(tts_queue, t, Unsure), FALSE,
               Append(session_memory, AssistantTurn(t, th[t].full_response)))

\* after the loop, in action mode: _extract_json(full_response) gives a
\* non-empty object, which goes to router.execute, or an empty object or None,
\* which both fail `if action_data:`; outside action mode: flush the sentence
\* buffer and append the assistant turn
stream_end(t) ==
    /\ th[t].pc = "stream_end"
    /\ \/ /\ th[t].is_action_mode
          /\ Turn(t, [th[t] EXCEPT !.pc = "exec", !.parsed = "object",
                                   !.routed = @ + 1],
                  clock, tts_queue, thinking_sound_active, session_memory)
       \/ /\ th[t].is_action_mode
          /\ \E data \in {"empty", "none"} :
                Turn(t, [th[t] EXCEPT !.pc = "wait", !.parsed = data, !.nenq = @ + 1,
                                      !.late = Did(t, {"enqueue"})],
                     set_state(clock, SPEAKING, t),
                     speak_text(tts_queue, t, Unsure), FALSE, session_memory)
       \/ /\ ~th[t].is_action_mode
          /\ IF th[t].sentence_buffer
                THEN Turn(t, [th[t] EXCEPT !.pc = "wait", !.sentence_buffer = FALSE,
                                  !.nenq = @ + 1,
                                  !.late = Did(t, {"enqueue", "append"})],
                          clock, speak_text(tts_queue, t, "sentence"),
                          thinking_sound_active,
                          Append(session_memory,
                                 AssistantTurn(t, th[t].full_response)))
                ELSE Turn(t, [th[t] EXCEPT !.pc = "wait",
                                  !.late = Did(t, {"append"})],
                          clock, tts_queue, thinking_sound_active,
                          Append(session_memory,
                                 AssistantTurn(t, th[t].full_response)))

\* _wait_for_tts: leave the loop on the interrupt flag, or once the queue is
\* empty and tts_active is clear
wait_for_tts(t) ==
    /\ th[t].pc = "wait"
    /\ \/ /\ interrupted
          /\ Turn(t, [th[t] EXCEPT !.pc = "set_idle", !.saw = TRUE], clock,
                  tts_queue, thinking_sound_active, session_memory)
       \/ /\ ~interrupted
          /\ tts_queue = <<>>
          /\ ~tts_active
          /\ Turn(t, [th[t] EXCEPT !.pc = "set_idle"], clock, tts_queue,
                  thinking_sound_active, session_memory)

\* _wait_for_tts read by read: the interrupt flag, then the queue's length
\* with the lock held
wait_for_tts_lock(t) ==
    /\ th[t].pc = "wait"
    /\ IF interrupted
          THEN Turn(t, [th[t] EXCEPT !.pc = "set_idle", !.saw = TRUE], clock,
                    tts_queue, thinking_sound_active, session_memory)
          ELSE Turn(t, [th[t] EXCEPT !.pc = "wait_flag",
                                     !.queue_empty = (tts_queue = <<>>)],
                    clock, tts_queue, thinking_sound_active, session_memory)

\* _wait_for_tts read by read: tts_active, outside the lock; break, or
\* time.sleep(0.1) and once more round the loop
wait_for_tts_flag(t) ==
    /\ th[t].pc = "wait_flag"
    /\ Turn(t, [th[t] EXCEPT !.pc = IF th[t].queue_empty /\ ~tts_active
                                       THEN "set_idle" ELSE "wait"],
            clock, tts_queue, thinking_sound_active, session_memory)

\* chat_and_respond: set_state(IDLE, "Ready!") after _wait_for_tts
chat_set_idle(t) ==
    /\ th[t].pc = "set_idle"
    /\ Turn(t, [th[t] EXCEPT !.pc = Return(t)], set_state(clock, IDLE, t),
            tts_queue, thinking_sound_active, session_memory)

\* a faulty handler that keeps the partial reply (flushes the sentence buffer
\* and appends the assistant turn): the discard property C19 must reject it
chat_error_keep(t) ==
    /\ th[t].pc = "error"
    /\ Turn(t, [th[t] EXCEPT !.pc = "error_sleep", !.nenq = @ + 1],
            set_state(clock, ERROR, t), speak_text(tts_queue, t, "sentence"),
            thinking_sound_active,
            Append(session_memory, AssistantTurn(t, th[t].full_response)))

\* chat_and_respond: except Exception: set_state(ERROR, "Brain Freeze!")
chat_error(t) ==
    /\ th[t].pc = "error"
    /\ Turn(t, [th[t] EXCEPT !.pc = "error_sleep"], set_state(clock, ERROR, t),
            tts_queue, thinking_sound_active, session_memory)

\* chat_and_respond: time.sleep(3); set_state(IDLE, "Ready!")
chat_error_recover(t) ==
    /\ th[t].pc = "error_sleep"
    /\ Turn(t, [th[t] EXCEPT !.pc = Return(t)], set_state(clock, IDLE, t),
            tts_queue, thinking_sound_active, session_memory)

\* a thread started by on_debug_send ends when chat_and_respond returns or raises
thread_end(t) ==
    /\ th[t].pc = "return"
    /\ Turn(t, Ended(th[t]), clock, tts_queue, thinking_sound_active, session_memory)

\* BeMoreAgentApp.on_pause: the app goes to the background and saves
BeMoreAgentApp_on_pause ==
    /\ memory_file' = save_chat_history(memory_file, permanent_memory, session_memory)
    /\ UNCHANGED <<rt, boot, seg, svcVars, current_state, setBy, clock, interrupted,
                   thinking_sound_active, recording_active, tts_active, tts_queue,
                   worker, llm, session_memory, permanent_memory, th, nstarted, quota>>

\* the process is gone (on_stop saved on the way out, or the system killed the
\* app, possibly in the middle of a save's write) and the app is launched
\* again: __init__ and on_enter
launch ==
    /\ \/ memory_file' = save_chat_history(memory_file, permanent_memory, session_memory)
       \/ memory_file' = memory_file
       \/ memory_file' = NoFile
    /\ current_state' = WARMUP
    /\ setBy' = 0
    /\ clock' = <<>>
    /\ interrupted' = FALSE
    /\ thinking_sound_active' = FALSE
    /\ recording_active' = FALSE
    /\ tts_active' = FALSE
    /\ tts_queue' = <<>>
    /\ worker' = [pc |-> "off", text |-> NoText]
    /\ llm' = FALSE
    /\ session_memory' = <<>>
    /\ permanent_memory' = load_chat_history(memory_file')
    /\ th' = [t \in Threads |-> Unborn]
    /\ nstarted' = 0
    /\ UNCHANGED <<rt, boot, seg, svcVars, quota>>

ListenNext ==
    \E t \in Threads :
        \/ listen_pause(t)
        \/ listen_start(t)
        \/ listen_heard(t)
        \/ listen_except(t)
        \/ listen_finally(t)

ChatNext ==
    \E t \in Threads :
        \/ chat_reset(t)
        \/ chat_reset_permanent(t)
        \/ chat_reset_speak(t)
        \/ chat_begin(t)
        \/ chat_nollm_speak(t)
        \/ handle_tool_result(t)
        \/ capture_image(t)
        \/ summarize(t)
        \/ stream_next(t)
        \/ stream_body(t)
        \/ stream_end(t)
        \/ wait_for_tts(t)
        \/ chat_set_idle(t)
        \/ chat_error(t)
        \/ chat_error_recover(t)
        \/ thread_end(t)

UiNext ==
    \/ warmup
    \/ on_mic_press
    \/ on_debug_send
    \/ on_mic_release
    \/ update
    \/ tts_worker_pop
    \/ tts_worker_speak
    \/ tts_worker_done

\* The wake service seen from the app: a /wake_detected datagram arrives.
EnvWake ==
    /\ wakesSent < MaxWakes
    /\ wakesSent' = wakesSent + 1
    /\ toApp' = toApp + 1
    /\ UNCHANGED <<rt, boot, seg, appVars, running, paused, result_event, result_holder, svc_pc,
                   backoff, looper, lr_pc, bgActive, toSvc, delivered, envSent>>


\* ------------------------------------------------------------------ _warmup step by step

\* _warmup is not followed step by step (the warmup action stands for it)
BootOff == [pc |-> "off", stt |-> FALSE, tts |-> FALSE, camera |-> FALSE,
            wake |-> FALSE, workers |-> 0]

\* on_enter has started the _warmup thread: greeting sound and time.sleep(1)
BootInit == boot = [BootOff EXCEPT !.pc = "stt"]

\* self.stt = STTEngine(), or the exception is printed
warmup_stt ==
    /\ boot.pc = "stt"
    /\ \E ok \in BOOLEAN : boot' = [boot EXCEPT !.pc = "tts", !.stt = ok]
    /\ UNCHANGED <<rt, svcVars, appVars, seg>>

\* self.tts = TTSEngine(), or the exception is printed
warmup_tts ==
    /\ boot.pc = "tts"
    /\ \E ok \in BOOLEAN : boot' = [boot EXCEPT !.pc = "worker", !.tts = ok]
    /\ UNCHANGED <<rt, svcVars, appVars, seg>>

\* threading.Thread(target=self._tts_worker).start();
\* set_state(WARMUP, "Loading AI model...")
warmup_worker ==
    /\ boot.pc = "worker"
    /\ boot' = [boot EXCEPT !.pc = "llm", !.workers = @ + 1]
    /\ worker' = [pc |-> "poll", text |-> NoText]
    /\ clock' = set_state(clock, WARMUP, 0)
    /\ UNCHANGED <<rt, seg, svcVars, current_state, setBy, interrupted, thinking_sound_active,
                   recording_active, tts_active, tts_queue, llm, session_memory,
                   permanent_memory, memory_file, th, nstarted, quota>>

\* ensure_model's download reports progress: set_state(WARMUP, "Downloading...")
warmup_progress ==
    /\ boot.pc = "llm"
    /\ Len(clock) < MaxClock
    /\ clock' = set_state(clock, WARMUP, 0)
    /\ UNCHANGED <<rt, boot, seg, svcVars, current_state, setBy, interrupted,
                   thinking_sound_active, recording_active, tts_active, tts_queue,
                   worker, llm, session_memory, permanent_memory, memory_file, th,
                   nstarted, quota>>

\* a faulty model step that catches FileNotFoundError only: any other failure
\* ends the thread, which the warmup property C22 must reject
warmup_llm_uncaught ==
    /\ boot.pc = "llm"
    /\ \E outcome \in {"loaded", "no file", "failed"} :
          /\ llm' = (outcome = "loaded")
          /\ boot' = [boot EXCEPT !.pc = IF outcome = "failed" THEN "dead" ELSE "camera"]
    /\ UNCHANGED <<rt, seg, svcVars, current_state, setBy, clock, interrupted,
                   thinking_sound_active, recording_active, tts_active, tts_queue,
                   worker, session_memory, permanent_memory, memory_file, th,
                   nstarted, quota>>

\* self.llm = LLMEngine(ensure_model(...)), or FileNotFoundError, or any other
\* exception, is printed
warmup_llm ==
    /\ boot.pc = "llm"
    /\ \E outcome \in {"loaded", "no file", "failed"} :
          /\ llm' = (outcome = "loaded")
          /\ boot' = [boot EXCEPT !.pc = "camera"]
    /\ UNCHANGED <<rt, seg, svcVars, current_state, setBy, clock, interrupted,
                   thinking_sound_active, recording_active, tts_active, tts_queue,
                   worker, session_memory, permanent_memory, memory_file, th,
                   nstarted, quota>>

\* self.camera = CameraEngine(), or the exception is printed
warmup_camera ==
    /\ boot.pc = "camera"
    /\ \E ok \in BOOLEAN : boot' = [boot EXCEPT !.pc = "wake", !.camera = ok]
    /\ UNCHANGED <<rt, svcVars, appVars, seg>>

\* self.start_wake_service(), which prints its own failure; then
\* Clock.schedule_once(set_state(IDLE, "Ready! ...")) (no test message file)
warmup_ready ==
    /\ boot.pc = "wake"
    /\ \E ok \in BOOLEAN : boot' = [boot EXCEPT !.pc = "done", !.wake = ok]
    /\ clock' = set_state(clock, IDLE, 0)
    /\ UNCHANGED <<rt, seg, svcVars, current_state, setBy, interrupted, thinking_sound_active,
                   recording_active, tts_active, tts_queue, worker, llm, session_memory,
                   permanent_memory, memory_file, th, nstarted, quota>>


\* ------------------------------------------------------------------ stream loop on texts

\* A chunk of the stream is a non-empty text (_stream_chat drops empty
\* contents).
Terminators == {".", "!", "?", "\n"}
Whitespace == {" ", "\n", "\t"}
\* [a-zA-Z0-9] over the characters used here
Alnum == {"H", "A", "i", "o", "w", "a", "r", "e", "y", "u", "c", "t", "n", "k", "1"}

\* s.strip()
strip(s) ==
    LET keep == {i \in 1 .. Len(s) : s[i] \notin Whitespace}
    IN IF keep = {} THEN <<>>
       ELSE SubSeq(s, CHOOSE a \in keep : \A b \in keep : a <= b,
                      CHOOSE a \in keep : \A b \in keep : a >= b)

\* re.search(r'[a-zA-Z0-9]', s)
HasAlnum(s) == \E i \in 1 .. Len(s) : s[i] \in Alnum

\* any(p in content for p in ".!?\n")
HasTerminator(s) == \E i \in 1 .. Len(s) : s[i] \in Terminators

\* '{"' in content or "action:" in content.lower()
LooksLikeAction(content) ==
    \/ Contains(content, <<"{", "\"">>)
    \/ Contains(Lowered(content), <<"a", "c", "t", "i", "o", "n", ":">>)

\* the chunks a stream is made of
Chunks ==
    {<<"H", "i">>, <<"!">>, <<" ", "H", "o", "w">>, <<" ", "y", "o", "u">>, <<"?">>,
     <<" ">>, <<"\n">>, <<".", ".", ".">>, <<"o", "k", ".", " ">>,
     <<"{">>, <<"{", "\"">>, <<"\"", "a", "c", "t", "i", "o", "n", "\"", ":", "1", "}">>,
     <<"{", "\"", "a", "c", "t", "i", "o", "n", "\"", ":", "1", "}">>,
     <<"A", "c", "t", "i", "o", "n", ":">>}

\* the stream "Hi", "!", " How", " are", " you", "?"
HiHowAreYou ==
    <<<<"H", "i">>, <<"!">>, <<" ", "H", "o", "w">>, <<" ", "a", "r", "e">>,
      <<" ", "y", "o", "u">>, <<"?">>>>

Streams == UNION {[1 .. n -> Chunks] : n \in 0 .. MaxStream} \cup {HiHowAreYou}

\* the loop is not running
SegOff == [pc |-> "off", stream |-> <<>>, i |-> 0, full_response |-> <<>>,
           sentence_buffer |-> <<>>, is_action_mode |-> FALSE, out |-> <<>>]

\* full_response = "", sentence_buffer = "", is_action_mode = False before a
\* stream the model is about to produce
SegInit ==
    \E stream \in Streams :
        seg = [SegOff EXCEPT !.pc = "loop", !.stream = stream]

\* a faulty loop body that enqueues the sentence and keeps it in the buffer:
\* the segmentation property C15 must reject it
stream_chunk_keep ==
    /\ seg.pc = "loop"
    /\ seg.i < Len(seg.stream)
    /\ LET content == seg.stream[seg.i + 1]
           r == [seg EXCEPT !.i = @ + 1, !.full_response = @ \o content]
           buffer == seg.sentence_buffer \o content
           clean == strip(buffer)
       IN seg' = IF LooksLikeAction(content)
                    THEN [r EXCEPT !.is_action_mode = TRUE]
                 ELSE IF seg.is_action_mode THEN r
                 ELSE IF HasTerminator(content) /\ clean # <<>> /\ HasAlnum(clean)
                    THEN [r EXCEPT !.sentence_buffer = buffer,
                                   !.out = Append(@, clean)]
                 ELSE [r EXCEPT !.sentence_buffer = buffer]
    /\ UNCHANGED <<rt, boot, svcVars, appVars>>

\* for chunk in stream: the loop body for the next chunk (the interrupt flag
\* is clear)
stream_chunk ==
    /\ seg.pc = "loop"
    /\ seg.i < Len(seg.stream)
    /\ LET content == seg.stream[seg.i + 1]
           r == [seg EXCEPT !.i = @ + 1, !.full_response = @ \o content]
           buffer == seg.sentence_buffer \o content
           clean == strip(buffer)
       IN seg' = IF LooksLikeAction(content)
                    THEN [r EXCEPT !.is_action_mode = TRUE]
                 ELSE IF seg.is_action_mode THEN r
                 ELSE IF HasTerminator(content)
                    THEN [r EXCEPT !.sentence_buffer = <<>>,
                                   !.out = IF clean # <<>> /\ HasAlnum(clean)
                                              THEN Append(@, clean) ELSE @]
                 ELSE [r EXCEPT !.sentence_buffer = buffer]
    /\ UNCHANGED <<rt, boot, svcVars, appVars>>

\* after the loop: an action is routed, anything else flushes the remainder
stream_flush ==
    /\ seg.pc = "loop"
    /\ seg.i = Len(seg.stream)
    /\ seg' = IF seg.is_action_mode THEN [seg EXCEPT !.pc = "route"]
              ELSE [seg EXCEPT !.pc = "done",
                               !.out = IF strip(seg.sentence_buffer) # <<>>
                                          /\ HasAlnum(seg.sentence_buffer)
                                          THEN Append(@, strip(seg.sentence_buffer))
                                          ELSE @]
    /\ UNCHANGED <<rt, boot, svcVars, appVars>>


\* ------------------------------------------------------------------ claims

\* a step in which the service's OSC thread handles the datagram at the head
\* of its port
Delivers(m) ==
    /\ toSvc # <<>>
    /\ Head(toSvc) = m
    /\ toSvc' = Tail(toSvc)
    /\ svc_pc' = svc_pc

\* C2: a _listen_and_respond that sent pause_listening has sent
\* resume_listening exactly once when it has returned, and not before its
\* finally block, on every exit path.
C2_ResumeExactlyOnce ==
    \A t \in Threads :
        th[t].pauses > 0 =>
            /\ th[t].pauses = 1
            /\ th[t].resumes = (IF th[t].pc = "done" THEN 1 ELSE 0)

\* a turn that left chat_and_respond by an exception has returned and resumed
C2_Witness ==
    \E t \in Threads :
        /\ th[t].pc = "done"
        /\ th[t].pauses = 1
        /\ th[t].resumes = 1
        /\ current_state = ERROR
        /\ setBy = t

\* C3: a pause_listening handled right after a pause_listening, and a
\* resume_listening handled right after a resume_listening, change neither
\* the paused flag nor the running flag.
C3_DuplicateIsNoOp ==
    [][\A m \in {PAUSE, RESUME} :
          (Delivers(m) /\ delivered[2] = m) =>
              (paused' = paused /\ running' = running)]_vars

\* two pause_listening messages have been handled in a row
C3_Witness ==
    /\ delivered = <<PAUSE, PAUSE>>
    /\ paused
    /\ running

\* C4: while the paused flag is set ListenRunnable never calls
\* startListening, and a pause that arrives during an active attempt posts
\* the runnable that stops it.
C4_NoStartWhilePaused ==
    [][/\ (lr_pc = "starting" /\ lr_pc' = "idle") => ~paused
       /\ (Delivers(PAUSE) /\ bgActive) =>
              (looper' # <<>> /\ looper'[Len(looper')] = "stop")]_vars

\* C5: when the update scheduled by the interrupt runs, BotState is IDLE and
\* the Speech Queue is empty.
C5_InterruptLeavesIdleAndEmpty ==
    [][(clock # <<>> /\ Head(clock).irq /\ clock' = Tail(clock)) =>
          (current_state' = IDLE /\ tts_queue' = <<>>)]_vars

\* C6: a turn that has observed the interrupt flag enqueues no utterance,
\* routes no action and appends no assistant turn afterwards.
C6_NoWorkAfterInterruptSeen ==
    \A t \in Threads : th[t].late = {}

\* C7: once the interrupt's update has set BotState to IDLE, no update
\* scheduled by the interrupted turn sets it to THINKING, SPEAKING, CAPTURING
\* or ERROR.
C7_InterruptPreempts ==
    \A t \in Threads :
        (setBy = t /\ th[t].pre = "idle") =>
            current_state \notin {THINKING, SPEAKING, CAPTURING, ERROR}

\* C8: whenever BotState is ERROR its recovery is still to come: an update is
\* pending on the Clock or a turn thread is still running.
C8_ErrorRecovers ==
    current_state = ERROR => (clock # <<>> \/ \E t \in Threads : Alive(t))

\* the speech worker has popped an utterance and not finished speaking it
Holding == worker.pc \in {"popped", "speaking"}

\* the utterances of turn t that are queued or in the worker's hands
Unspoken(t) ==
    {i \in DOMAIN tts_queue : tts_queue[i].turn = t}
        \cup (IF Holding /\ worker.text.turn = t THEN {0} ELSE {})

\* C10: when a turn that was not interrupted has set BotState to IDLE, none
\* of its utterances is still queued or being spoken.
C10_IdleOnlyAfterDrain ==
    \A t \in Threads :
        (current_state = IDLE /\ setBy = t /\ th[t].pre = "no" /\ ~th[t].saw) =>
            Unspoken(t) = {}


\* C11: a turn waiting in _wait_for_tts can always get out: the interrupt
\* flag is set, or the queue is empty and tts_active clear, or the speech
\* worker still holds or will pop an utterance whose end clears tts_active.
C11_WaitCanEnd ==
    \A t \in Threads :
        th[t].pc = "wait" =>
            \/ interrupted
            \/ tts_queue = <<>> /\ ~tts_active
            \/ Holding
            \/ \E i \in DOMAIN tts_queue : tts_queue[i].text # ""

\* C12: the utterances of one turn stand in the Speech Queue in the order
\* they were enqueued, without duplicates, and the one the worker has popped
\* was enqueued before every utterance of that turn still queued.
C12_Fifo ==
    /\ \A i \in DOMAIN tts_queue : \A j \in DOMAIN tts_queue :
          (i < j /\ tts_queue[i].turn = tts_queue[j].turn) =>
              tts_queue[i].n < tts_queue[j].n
    /\ Holding =>
          \A i \in DOMAIN tts_queue :
              tts_queue[i].turn = worker.text.turn =>
                  worker.text.n < tts_queue[i].n

\* the worker speaks the first utterance of a turn while the second is queued
C12_Witness ==
    /\ worker.pc = "speaking"
    /\ worker.text.n = 1
    /\ \E i \in DOMAIN tts_queue :
          tts_queue[i].turn = worker.text.turn /\ tts_queue[i].n = 2

\* the update that an interrupt schedules has just been queued on the Clock
Interrupts ==
    /\ Len(clock') = Len(clock) + 1
    /\ clock'[Len(clock')].irq

\* no utterance that a clear removed is queued or in the worker's hands
NoneCleared ==
    /\ \A i \in DOMAIN tts_queue :
          tts_queue[i].n \notin th[tts_queue[i].turn].cleared
    /\ Holding => worker.text.n \notin th[worker.text.turn].cleared

\* C13: an interrupt empties the Speech Queue and leaves the worker with the
\* utterance it had popped; no utterance that was queued at a clear is ever
\* queued or spoken afterwards.
C13_ClearIsAtomic ==
    [][/\ Interrupts => (tts_queue' = <<>> /\ worker' = worker)
       /\ NoneCleared']_vars

\* the queue was cleared while the worker was speaking an utterance popped
\* before the clear
C13_Witness ==
    /\ worker.pc = "speaking"
    /\ th[worker.text.turn].cleared # {}
    /\ tts_queue = <<>>
    /\ interrupted

\* C17: while a turn whose text holds a reset phrase runs, BotState is never
\* THINKING, ERROR or CAPTURING, the turn is only ever on the reset path of
\* chat_and_respond (no intent detection, routing or model call), and it
\* enqueues at most the one confirmation utterance.
C17_ResetShortCircuits ==
    \A t \in Threads :
        th[t].kind = "reset" =>
            /\ current_state \notin {THINKING, ERROR, CAPTURING}
            /\ th[t].pc \in {"chat", "reset_perm", "reset_speak", "return", "finally"}
            /\ th[t].nenq <= 1
            /\ th[t].ctx = None

\* C19: when the model stream raises, the exception is handled inside
\* chat_and_respond, which schedules BotState ERROR; from the raise on the
\* turn enqueues nothing and no assistant turn of it enters the session memory.
C19_StreamFailureDiscards ==
    [][\A t \in Threads :
          th[t].raised =>
             /\ th'[t].nenq = th[t].nenq
             /\ Queued(t)' \subseteq Queued(t)
             /\ \A i \in DOMAIN session_memory' :
                   ~(session_memory'[i].role = "assistant" /\ session_memory'[i].turn = t)
             /\ th[t].pc = "error" =>
                   /\ th'[t].pc \in {"error", "error_sleep"}
                   /\ th'[t].pc = "error_sleep" =>
                         clock' = Append(clock, [s |-> ERROR, by |-> t, irq |-> FALSE])]_vars

\* a stream that raised with an unfinished sentence in the buffer has been
\* handled: ERROR is displayed and the turn is in its recovery sleep
C19_Witness ==
    \E t \in Threads :
        /\ th[t].raised
        /\ th[t].pc = "error_sleep"
        /\ th[t].sentence_buffer
        /\ th[t].full_response # <<>>
        /\ current_state = ERROR
        /\ setBy = t

\* a step that starts a thread running _listen_and_respond
StartsListening ==
    /\ nstarted' = nstarted + 1
    /\ th'[nstarted'].src \in {"mic", "wake"}

\* a step in which the Clock runs the _on_wake_detected call at its head
WakeHandled ==
    /\ clock # <<>>
    /\ Head(clock).s = "wake"
    /\ clock' # clock
    /\ Len(clock') <= Len(clock)

\* C20: a thread running _listen_and_respond is started only in a step taken
\* with BotState IDLE, and a wake signal handled in any other state leaves
\* BotState, the recording flag and the set of turns as they were.
C20_StartOnlyWhenIdle ==
    [][/\ StartsListening => current_state = IDLE
       /\ (WakeHandled /\ current_state # IDLE) =>
             /\ UNCHANGED <<current_state, recording_active, th, nstarted>>
             /\ clock' = Tail(clock)]_vars

\* a wake signal was handled and dropped while a turn started from the mic
\* button was listening
C20_Witness ==
    /\ wakesSent > 0
    /\ toApp = 0
    /\ \A i \in DOMAIN clock : clock[i].s # "wake"
    /\ current_state = LISTENING
    /\ recording_active
    /\ nstarted = 1
    /\ th[1].src = "mic"
    /\ th[1].pc = "listening"

\* C16: the step that completes a reset leaves permanent_memory holding the
\* system turn alone and session_memory empty, whatever they held before.
C16_ResetWipes ==
    [][\A t \in Threads :
          (th[t].pc = "reset_perm" /\ th'[t].pc = "reset_speak") =>
             /\ permanent_memory' = <<SystemTurn>>
             /\ session_memory' = <<>>]_vars

\* C18: permanent_memory is never empty and its first element is the system
\* turn, and so is every memory.json the app has written, across turns,
\* resets, saves and launches.
C18_SystemTurnAnchored ==
    /\ permanent_memory # <<>>
    /\ permanent_memory[1] = SystemTurn
    /\ \A i \in 2 .. Len(permanent_memory) : permanent_memory[i].role # "system"
    /\ memory_file # NoFile => memory_file[1] = SystemTurn

\* a launch has loaded a file whose oldest turns a save had dropped: the
\* system turn is still in front of turns of the running process's past
C18_Witness ==
    /\ Len(permanent_memory) = HistoryLimit + 1
    /\ permanent_memory[2] # OldTurns[1]
    /\ permanent_memory[HistoryLimit + 1].role = "user"
    /\ permanent_memory[HistoryLimit + 1].turn > 0

\* the text that a run of chunks spells
RECURSIVE Cat(_)
Cat(chunks) == IF chunks = <<>> THEN <<>> ELSE Head(chunks) \o Cat(Tail(chunks))

\* the stream's text begins with {"action"
StartsWithAction ==
    LET text == Cat(seg.stream)
        opener == <<"{", "\"", "a", "c", "t", "i", "o", "n", "\"">>
    IN Len(text) >= Len(opener) /\ SubSeq(text, 1, Len(opener)) = opener

\* C14: a stream whose text starts with {"action" never gets any of its text
\* enqueued as speech, however the text is cut into chunks, and the loop is in
\* action mode as soon as the text received so far holds the opener {".
C14_ActionStreamIsSilent ==
    StartsWithAction =>
        /\ seg.out = <<>>
        /\ Contains(seg.full_response, <<"{", "\"">>) => seg.is_action_mode

\* what the contract says is enqueued for a stream, by position: a flush ends
\* at every chunk that holds a terminator and at the end of the stream, it
\* covers the chunks after the previous flush, and it is enqueued, trimmed,
\* when it holds a letter or digit
FlushPoints(stream) ==
    {k \in 1 .. Len(stream) : HasTerminator(stream[k]) \/ k = Len(stream)}
Flushed(stream, k) ==
    LET before == {j \in FlushPoints(stream) : j < k}
        from == IF before = {} THEN 1
                ELSE 1 + CHOOSE j \in before : \A h \in before : h <= j
    IN strip(Cat(SubSeq(stream, from, k)))
Expected(stream) ==
    LET spoken == {k \in FlushPoints(stream) : HasAlnum(Flushed(stream, k))}
    IN [n \in 1 .. Cardinality(spoken) |->
           Flushed(stream, CHOOSE k \in spoken :
                              Cardinality({j \in spoken : j <= k}) = n)]

\* no chunk boundary hides a marker: the text as a whole holds neither {" nor
\* action:
MarkerFree(stream) == ~LooksLikeAction(Cat(stream))

\* C15: for a stream without action markers the utterances enqueued when the
\* loop has finished are the trimmed texts between consecutive terminator
\* chunks (and the trimmed remainder) that hold a letter or digit, in order;
\* for "Hi", "!", " How", " are", " you", "?" they are "Hi!" and "How are you?".
C15_Segmentation ==
    (seg.pc = "done" /\ MarkerFree(seg.stream)) =>
        /\ seg.out = Expected(seg.stream)
        /\ seg.stream = HiHowAreYou =>
              seg.out = << <<"H", "i", "!">>,
                           <<"H", "o", "w", " ", "a", "r", "e", " ", "y", "o", "u", "?">> >>

\* the greeting has been streamed to the end
C15_Witness ==
    /\ seg.pc = "done"
    /\ seg.stream = HiHowAreYou
    /\ Len(seg.out) = 2

\* turn t takes a step of _listen_and_respond on the path where the
\* recognizer returns no text: pause, grace sleep, listen, the return, finally
StepsUnheard(t) ==
    \/ th[t].pc \in {"begin", "grace"} /\ th'[t].pc # th[t].pc
    \/ th[t].pc = "listening" /\ th'[t].pc = "finally"
    \/ th[t].pc = "finally" /\ th[t].kind = None /\ th'[t].pc = "done"

\* C21: a turn whose recognition attempt returns no text schedules BotState
\* IDLE and changes neither memory, nor memory.json, nor the Speech Queue, nor
\* the interrupt flag, and it never reaches chat_and_respond (no intent
\* detection, routing or model call).
C21_UnheardChangesNothing ==
    [][\A t \in Threads :
          StepsUnheard(t) =>
             /\ UNCHANGED <<session_memory, permanent_memory, memory_file, tts_queue,
                            interrupted, thinking_sound_active>>
             /\ th'[t].kind = None /\ th'[t].ctx = None /\ th'[t].nenq = 0
             /\ th[t].pc = "listening" =>
                   clock' = Append(clock, [s |-> IDLE, by |-> t, irq |-> FALSE])]_vars

\* a turn that heard nothing has ended, the interrupt flag an earlier turn
\* left set is still set, and the app is IDLE by that turn's doing
C21_Witness ==
    \E t \in Threads :
        /\ th[t].pc = "done"
        /\ th[t].src = "mic"
        /\ th[t].resumes = 1
        /\ th[t].nenq = 0
        /\ current_state = IDLE
        /\ setBy = t
        /\ interrupted

\* C22: whatever succeeds or fails while the engines are created, _warmup
\* starts the _tts_worker once and no more, and BotState ends up IDLE.
C22_WarmupReachesIdle ==
    /\ [](boot.workers <= 1)
    /\ <>[](current_state = IDLE /\ boot.pc = "done" /\ boot.workers = 1
            /\ worker.pc = "poll")

\* warmup is over and the app is IDLE although no engine could be created and
\* the wake service did not start
C22_Witness ==
    /\ boot.pc = "done"
    /\ current_state = IDLE
    /\ ~boot.stt /\ ~boot.tts /\ ~llm /\ ~boot.camera /\ ~boot.wake
    /\ boot.workers = 1

\* no turn thread is running and the Clock has nothing left to apply
Quiet ==
    /\ \A t \in Threads : th[t].pc \in {"unborn", "done"}
    /\ clock = <<>>

\* C23: without a language model a turn with a user text that is not a reset
\* stays on the fallback path (no intent detection, routing or model call),
\* has enqueued exactly one utterance once it is past the fallback, ERROR is
\* neither displayed nor scheduled, and when the turns have ended and the
\* Clock has run BotState is IDLE.
C23_FallbackWithoutModel ==
    ~llm =>
        /\ current_state # ERROR
        /\ \A i \in DOMAIN clock : clock[i].s # ERROR
        /\ \A t \in Threads :
              th[t].kind \notin {None, "reset"} =>
                 /\ th[t].pc \in {"chat", "nollm_speak", "return", "finally"}
                 /\ th[t].ctx = None
                 /\ th[t].nenq = IF th[t].pc \in {"return", "finally"} THEN 1 ELSE 0
        /\ (Quiet /\ nstarted > 0) => current_state = IDLE

\* without a model a first turn spoke the fallback and ended, the app went
\* back to IDLE, and a further turn was started after it and did the same
C23_Witness ==
    /\ ~llm
    /\ Quiet
    /\ nstarted = 2
    /\ th[2].after = {1}
    /\ th[1].nenq = 1 /\ th[2].nenq = 1
    /\ Len(session_memory) = 2
    /\ current_state = IDLE

\* turn t gets IMAGE_CAPTURE_TRIGGERED from the router and sets CAPTURING
Captures(t) == th[t].pc = "exec" /\ th'[t].pc = "capture"

C9_NoEnqueueOverPendingSpeech ==
    \A u \in Threads : \A t \in th[u].after :
        (\E i \in DOMAIN tts_queue : tts_queue[i].turn = u) =>
            Unspoken(t) = {}

\* C1: no foreground stt.listen is in progress while a recognition attempt
\* started by the wake listener is active.
C1_OneHolder ==
    \A t \in Threads : th[t].pc = "listening" => ~bgActive

\* ------------------------------------------------------- ActionRouter

\* the action names of VALID_TOOLS, as texts
N_get_time == <<"g", "e", "t", "_", "t", "i", "m", "e">>
N_search_web == <<"s", "e", "a", "r", "c", "h", "_", "w", "e", "b">>
N_capture_image == <<"c", "a", "p", "t", "u", "r", "e", "_", "i", "m", "a", "g", "e">>

VALID_TOOLS == {N_get_time, N_search_web, N_capture_image}

\* a faulty alias table in which "look" leads to another alias: the
\* resolution property C30 must reject it
ALIASES_chained ==
    (<<"g", "o", "o", "g", "l", "e">> :> N_search_web)
        @@ (<<"b", "r", "o", "w", "s", "e", "r">> :> N_search_web)
        @@ (<<"n", "e", "w", "s">> :> N_search_web)
        @@ (<<"s", "e", "a", "r", "c", "h", "_", "n", "e", "w", "s">> :> N_search_web)
        @@ (<<"l", "o", "o", "k">> :> <<"s", "e", "e">>)
        @@ (<<"s", "e", "e">> :> N_capture_image)
        @@ (<<"c", "h", "e", "c", "k", "_", "t", "i", "m", "e">> :> N_get_time)

ALIASES ==
    (<<"g", "o", "o", "g", "l", "e">> :> N_search_web)
        @@ (<<"b", "r", "o", "w", "s", "e", "r">> :> N_search_web)
        @@ (<<"n", "e", "w", "s">> :> N_search_web)
        @@ (<<"s", "e", "a", "r", "c", "h", "_", "n", "e", "w", "s">> :> N_search_web)
        @@ (<<"l", "o", "o", "k">> :> N_capture_image)
        @@ (<<"s", "e", "e">> :> N_capture_image)
        @@ (<<"c", "h", "e", "c", "k", "_", "t", "i", "m", "e">> :> N_get_time)

\* dict.get(key, default) on a table of texts
Get(table, key, default) == IF key \in DOMAIN table THEN table[key] ELSE default

\* A JSON value of a request: a missing key, null, a number or a string.
Absent == [t |-> "absent", s |-> <<>>, n |-> 0]
Null == [t |-> "null", s |-> <<>>, n |-> 0]
Num(n) == [t |-> "num", s |-> <<>>, n |-> n]
Str(s) == [t |-> "str", s |-> s, n |-> 0]

\* action_data.get(key) and action_data.get(key, default): a missing key
\* gives the default (None without one), a null stays None
get(d, key, default) == IF d[key].t = "absent" THEN default ELSE d[key]

\* the truth value Python gives a JSON value
Truthy(j) ==
    CASE j.t = "str" -> j.s # <<>>
      [] j.t = "num" -> j.n # 0
      [] OTHER -> FALSE

\* len(value.split()): the runs of characters that are not whitespace
Words(s) ==
    Cardinality({i \in DOMAIN s : s[i] \notin Whitespace
                                   /\ (i = 1 \/ s[i - 1] \in Whitespace)})

\* the raw action names a request may carry: valid names and aliases in
\* several spellings, an unknown name, the empty string
RawActions ==
    {<<"g", "e", "t", "_", "t", "i", "m", "e">>,
     <<"G", "E", "T", "_", "T", "I", "M", "E">>,
     <<" ", "s", "e", "a", "r", "c", "h", "_", "w", "e", "b">>,
     <<"c", "a", "p", "t", "u", "r", "e", "_", "i", "m", "a", "g", "e", "\n">>,
     <<"G", "o", "o", "g", "l", "e">>,
     <<"b", "r", "o", "w", "s", "e", "r">>,
     <<"n", "e", "w", "s">>,
     <<"S", "e", "a", "r", "c", "h", "_", "N", "e", "w", "s", " ">>,
     <<"l", "o", "o", "k">>,
     <<" ", "S", "e", "e", "\t">>,
     <<"c", "h", "e", "c", "k", "_", "t", "i", "m", "e">>,
     <<"d", "a", "n", "c", "e">>,
     <<"g", "e", "t", " ", "t", "i", "m", "e">>,
     <<>>}

\* the values and queries a request may carry
RawValues ==
    {Absent, Null, Num(0), Num(7), Str(<<>>), Str(<<"h", "i">>), Str(<<" ", "h", "i", " ">>), Str(<<"t", "e", "l", "l", " ", "m", "e">>)}
RawQueries == {Absent, Str(<<"t", "h", "e", " ", "n", "e", "w", "s">>)}

\* the requests chat_and_respond may hand to execute: from _detect_intent, or
\* whatever object json.loads made of the model's output
Requests ==
    [action : {Absent, Null, Num(1)} \cup {Str(a) : a \in RawActions},
     value : RawValues, query : RawQueries]

NoRequest == [action |-> Absent, value |-> Absent, query |-> Absent]
\* what the web-search collaborator did in a call of _search_web: whether the
\* client could be created, and what the news and the text query gave
NoSearch == [client |-> "unused", news |-> "unasked", text |-> "unasked"]
RouteOff ==
    [pc |-> "off", action_data |-> NoRequest, raw_action |-> <<>>, value |-> Null,
     action |-> <<>>, result |-> None, text |-> <<>>, web |-> NoSearch,
     heard |-> <<>>]

\* the call is entered with a request
RouteInit ==
    \E d \in Requests : rt = [RouteOff EXCEPT !.pc = "resolve", !.action_data = d]

\* raw_action = action_data.get("action", "").lower().strip(), which raises
\* AttributeError on a value without .lower(); value = action_data.get("value")
\* or action_data.get("query"); action = self.ALIASES.get(raw_action, raw_action)
execute_resolve ==
    /\ rt.pc = "resolve"
    /\ LET a == get(rt.action_data, "action", Str(<<>>))
           v == get(rt.action_data, "value", Null)
           q == get(rt.action_data, "query", Null)
           raw_action == strip(Lowered(a.s))
       IN IF a.t # "str"
             THEN rt' = [rt EXCEPT !.pc = "raised"]
             ELSE rt' = [rt EXCEPT !.pc = "dispatch", !.raw_action = raw_action,
                                   !.value = IF Truthy(v) THEN v ELSE q,
                                   !.action = Get(ALIASES, raw_action, raw_action)]
    /\ UNCHANGED <<svcVars, appVars, seg, boot>>

\* a faulty dispatch that takes any non-empty string for conversation, a
\* single word included: the fallback property C32 must reject it
execute_dispatch_anyword ==
    /\ rt.pc = "dispatch"
    /\ rt.action \notin VALID_TOOLS
    /\ IF Truthy(rt.value) /\ rt.value.t = "str"
          THEN rt' = [rt EXCEPT !.pc = "returned", !.result = CHAT_FALLBACK,
                                !.text = rt.value.s]
          ELSE rt' = [rt EXCEPT !.pc = "returned", !.result = INVALID_ACTION]
    /\ UNCHANGED <<svcVars, appVars, seg, boot>>

\* if action not in VALID_TOOLS: CHAT_FALLBACK::value or INVALID_ACTION; else
\* the tool: the time as text, _search_web(value), IMAGE_CAPTURE_TRIGGERED
execute_dispatch ==
    /\ rt.pc = "dispatch"
    /\ \/ /\ rt.action \notin VALID_TOOLS
          /\ IF Truthy(rt.value) /\ rt.value.t = "str" /\ Words(rt.value.s) > 1
                THEN rt' = [rt EXCEPT !.pc = "returned", !.result = CHAT_FALLBACK,
                                      !.text = rt.value.s]
                ELSE rt' = [rt EXCEPT !.pc = "returned", !.result = INVALID_ACTION]
       \/ /\ rt.action = N_get_time
          /\ rt' = [rt EXCEPT !.pc = "returned", !.result = RAW_RESULT]
       \/ /\ rt.action = N_search_web
          /\ rt' = [rt EXCEPT !.pc = "search"]
       \/ /\ rt.action = N_capture_image
          /\ rt' = [rt EXCEPT !.pc = "returned", !.result = IMAGE_CAPTURE_TRIGGERED]
       \/ /\ rt.action \in VALID_TOOLS
          /\ rt.action \notin {N_get_time, N_search_web, N_capture_image}
          /\ rt' = [rt EXCEPT !.pc = "returned", !.result = None]
    /\ UNCHANGED <<svcVars, appVars, seg, boot>>

\* what a query of the collaborator may do: give a hit, give a hit whose body
\* cannot be sliced, give nothing, raise
QueryOutcomes == {"hit", "badhit", "none", "raise"}

\* _search_web(query): importing DDGS or DDGS() raises into the outer except
\* (SEARCH_ERROR); ddgs.news and, if that left results empty, ddgs.text run
\* each in a try whose except passes; the first hit is formatted (a raise in
\* that lands in the outer except), no hit gives SEARCH_EMPTY
search_web ==
    /\ rt.pc = "search"
    /\ \/ rt' = [rt EXCEPT !.pc = "returned", !.result = SEARCH_ERROR,
                            !.web = [NoSearch EXCEPT !.client = "raise"]]
       \/ \E news \in QueryOutcomes, text \in QueryOutcomes :
             LET asked == news \in {"none", "raise"}
                 results == IF asked THEN text ELSE news
                 web == [client |-> "ok", news |-> news,
                         text |-> IF asked THEN text ELSE "unasked"]
             IN rt' = [rt EXCEPT !.pc = "returned", !.web = web,
                          !.result = CASE results = "hit" -> RAW_RESULT
                                       [] results = "badhit" -> SEARCH_ERROR
                                       [] OTHER -> SEARCH_EMPTY]
    /\ UNCHANGED <<svcVars, appVars, seg, boot>>

\* ------------------------------------------------------ _detect_intent

time_triggers ==
    {<<"w", "h", "a", "t", " ", "t", "i", "m", "e">>,
     <<"w", "h", "a", "t", "'", "s", " ", "t", "h", "e", " ", "t", "i", "m", "e">>,
     <<"c", "u", "r", "r", "e", "n", "t", " ", "t", "i", "m", "e">>,
     <<"t", "e", "l", "l", " ", "m", "e", " ", "t", "h", "e", " ", "t", "i", "m", "e">>,
     <<"t", "i", "m", "e", " ", "i", "s", " ", "i", "t">>,
     <<"w", "h", "a", "t", " ", "i", "s", " ", "t", "h", "e", " ", "t", "i", "m", "e">>}

camera_triggers ==
    {<<"t", "a", "k", "e", " ", "a", " ", "p", "h", "o", "t", "o">>,
     <<"t", "a", "k", "e", " ", "a", " ", "p", "i", "c", "t", "u", "r", "e">>,
     <<"t", "a", "k", "e", " ", "p", "h", "o", "t", "o">>,
     <<"t", "a", "k", "e", " ", "p", "i", "c", "t", "u", "r", "e">>,
     <<"c", "a", "p", "t", "u", "r", "e", " ", "i", "m", "a", "g", "e">>,
     <<"c", "a", "p", "t", "u", "r", "e", " ", "a", " ", "p", "h", "o", "t", "o">>,
     <<"w", "h", "a", "t", " ", "d", "o", " ", "y", "o", "u", " ", "s", "e", "e">>,
     <<"l", "o", "o", "k", " ", "a", "r", "o", "u", "n", "d">>}

\* s from its first character that is not whitespace
lstrip(s) ==
    LET keep == {i \in 1 .. Len(s) : s[i] \notin Whitespace}
    IN IF keep = {} THEN <<>>
       ELSE SubSeq(s, CHOOSE a \in keep : \A b \in keep : a <= b, Len(s))

\* s.rstrip("?.")
rstrip_punct(s) ==
    LET keep == {i \in 1 .. Len(s) : s[i] \notin {"?", "."}}
    IN IF keep = {} THEN <<>>
       ELSE SubSeq(s, 1, CHOOSE a \in keep : \A b \in keep : a >= b)

\* w stands in s at place p
At(s, p, w) == p + Len(w) - 1 <= Len(s) /\ SubSeq(s, p, p + Len(w) - 1) = w

\* s after its first n characters and the whitespace that follows them
After(s, n) == lstrip(SubSeq(s, n + 1, Len(s)))

\* group(1) of re.search on a stripped one-line text t, or <<>> without a
\* match, for the pattern
\* (?:search|look up|find|google)\s+(?:for\s+|about\s+|news\s+(?:about\s+)?)?(.+)
\* : the leftmost keyword that whitespace follows, the optional lead-in words
\* when whitespace follows them too, and the rest of the text
search_pattern_1(t) ==
    LET keywords == {<<"s", "e", "a", "r", "c", "h">>,
                     <<"l", "o", "o", "k", " ", "u", "p">>,
                     <<"f", "i", "n", "d">>,
                     <<"g", "o", "o", "g", "l", "e">>}
        hit(p, k) == At(t, p, k) /\ p + Len(k) <= Len(t) /\ t[p + Len(k)] \in Whitespace
        starts == {p \in 1 .. Len(t) : \E k \in keywords : hit(p, k)}
        lead(r, w) == At(r, 1, w) /\ Len(r) > Len(w) /\ r[Len(w) + 1] \in Whitespace
    IN IF starts = {} THEN <<>>
       ELSE LET p == CHOOSE a \in starts : \A b \in starts : a <= b
                k == CHOOSE w \in keywords : hit(p, w)
                r == After(t, p + Len(k) - 1)
                r2 == After(r, 4)
            IN IF lead(r, <<"f", "o", "r">>) THEN After(r, 3)
               ELSE IF lead(r, <<"a", "b", "o", "u", "t">>) THEN After(r, 5)
               ELSE IF lead(r, <<"n", "e", "w", "s">>)
                       THEN IF lead(r2, <<"a", "b", "o", "u", "t">>) THEN After(r2, 5) ELSE r2
               ELSE r

\* the same for the pattern
\* what(?:'s| is) (?:happening|the latest|the news)(?: about| on)?\s*(.+)
\* : the leftmost opening that text follows; " about" or " on" is taken as
\* the optional part whenever text follows it, else it is left to the group
search_pattern_2(t) ==
    LET openings == {<<"w", "h", "a", "t", "'", "s", " ", "h", "a", "p", "p", "e", "n", "i", "n", "g">>,
                     <<"w", "h", "a", "t", "'", "s", " ", "t", "h", "e", " ", "l", "a", "t", "e", "s", "t">>,
                     <<"w", "h", "a", "t", "'", "s", " ", "t", "h", "e", " ", "n", "e", "w", "s">>,
                     <<"w", "h", "a", "t", " ", "i", "s", " ", "h", "a", "p", "p", "e", "n", "i", "n", "g">>,
                     <<"w", "h", "a", "t", " ", "i", "s", " ", "t", "h", "e", " ", "l", "a", "t", "e", "s", "t">>,
                     <<"w", "h", "a", "t", " ", "i", "s", " ", "t", "h", "e", " ", "n", "e", "w", "s">>}
        hit(p, o) == At(t, p, o) /\ p + Len(o) <= Len(t)
        starts == {p \in 1 .. Len(t) : \E o \in openings : hit(p, o)}
    IN IF starts = {} THEN <<>>
       ELSE LET p == CHOOSE a \in starts : \A b \in starts : a <= b
                o == CHOOSE w \in openings : hit(p, w)
                u == SubSeq(t, p + Len(o), Len(t))
            IN IF At(u, 1, <<" ", "a", "b", "o", "u", "t">>) /\ Len(u) > 6 THEN After(u, 6)
               ELSE IF At(u, 1, <<" ", "o", "n">>) /\ Len(u) > 3 THEN After(u, 3)
               ELSE lstrip(u)

\* what _detect_intent returns for an action and a value; None is NoRequest
Intent(action, value) == [action |-> Str(action), value |-> Str(value), query |-> Absent]

\* a faulty detector that looks for camera phrases before time phrases: the
\* ordering property C33 must reject it
detect_intent_camera_first(text) ==
    LET t == strip(Lowered(text))
    IN IF \E trigger \in camera_triggers : Contains(t, trigger)
          THEN Intent(N_capture_image, <<"e", "n", "v", "i", "r", "o", "n", "m", "e", "n", "t">>)
       ELSE IF \E trigger \in time_triggers : Contains(t, trigger)
          THEN Intent(N_get_time, <<"n", "o", "w">>)
       ELSE NoRequest

\* _detect_intent(text) on the text itself
detect_intent_text(text) ==
    LET t == strip(Lowered(text))
        query(m) == rstrip_punct(strip(m))
        q1 == query(search_pattern_1(t))
        q2 == query(search_pattern_2(t))
    IN IF \E trigger \in time_triggers : Contains(t, trigger)
          THEN Intent(N_get_time, <<"n", "o", "w">>)
       ELSE IF \E trigger \in camera_triggers : Contains(t, trigger)
          THEN Intent(N_capture_image, <<"e", "n", "v", "i", "r", "o", "n", "m", "e", "n", "t">>)
       ELSE IF Len(q1) > 2 THEN Intent(N_search_web, q1)
       ELSE IF Len(q2) > 2 THEN Intent(N_search_web, q2)
       ELSE NoRequest

\* texts a turn may start with
Texts ==
    {<<"w", "h", "a", "t", " ", "t", "i", "m", "e", " ", "i", "s", " ", "i", "t">>,
     <<"W", "h", "a", "t", " ", "T", "I", "M", "E", " ", "i", "s", " ", "i", "t">>,
     <<" ", " ", "T", "e", "l", "l", " ", "m", "e", " ", "t", "h", "e", " ", "t", "i", "m", "e", " ">>,
     <<"t", "a", "k", "e", " ", "a", " ", "p", "h", "o", "t", "o", ",", " ", "w", "h", "a", "t", " ", "t", "i", "m", "e", " ", "i", "s", " ", "i", "t">>,
     <<"s", "e", "a", "r", "c", "h", " ", "w", "h", "a", "t", " ", "t", "i", "m", "e", " ", "i", "s", " ", "i", "t">>,
     <<"t", "a", "k", "e", " ", "a", " ", "p", "i", "c", "t", "u", "r", "e">>,
     <<"L", "o", "o", "k", " ", "a", "r", "o", "u", "n", "d", " ", "a", "n", "d", " ", "f", "i", "n", "d", " ", "m", "y", " ", "k", "e", "y", "s">>,
     <<"w", "h", "a", "t", " ", "d", "o", " ", "y", "o", "u", " ", "s", "e", "e">>,
     <<"s", "e", "a", "r", "c", "h", " ", "f", "o", "r", " ", "c", "a", "t", "s">>,
     <<"s", "e", "a", "r", "c", "h", " ", "x">>,
     <<"g", "o", "o", "g", "l", "e", " ", "n", "e", "w", "s", " ", "a", "b", "o", "u", "t", " ", "a", "i", ".">>,
     <<"f", "i", "n", "d", " ", "n", "e", "w", "s", " ", "a", "b", "o", "u", "t", " ", "m", "a", "r", "s", "?">>,
     <<"w", "h", "a", "t", " ", "i", "s", " ", "t", "h", "e", " ", "n", "e", "w", "s", " ", "a", "b", "o", "u", "t">>,
     <<"w", "h", "a", "t", "'", "s", " ", "h", "a", "p", "p", "e", "n", "i", "n", "g", " ", "t", "o", "d", "a", "y">>,
     <<"w", "h", "a", "t", " ", "i", "s", " ", "t", "h", "e", " ", "l", "a", "t", "e", "s", "t", " ", "o", "n", "e", "s">>,
     <<"w", "h", "a", "t", " ", "i", "s", " ", "t", "h", "e", " ", "l", "a", "t", "e", "s", "t", " ", "o", "n", " ", "a", "i">>,
     <<"h", "e", "l", "l", "o", " ", "t", "h", "e", "r", "e">>,
     <<>>,
     <<"r", "e", "s", "e", "a", "r", "c", "h", " ", "p", "a", "p", "e", "r", "s">>,
     <<"l", "o", "o", "k", " ", "u", "p", " ", "t", "h", "e", " ", "w", "e", "a", "t", "h", "e", "r">>,
     <<"s", "e", "a", "r", "c", "h">>,
     <<"f", "i", "n", "d", " ", "i", "t">>,
     <<"s", "e", "a", "r", "c", "h", " ", "f", "o", "r", " ", " ", " ", "d", "o", "g", "s", ".", ".", ".">>,
     <<"g", "o", "o", "g", "l", "e", " ", "c", "a", "t", "s">>,
     <<"w", "h", "a", "t", " ", "i", "s", " ", "t", "h", "e", " ", "n", "e", "w", "s">>}

\* chat_and_respond is entered with a text
IntentInit ==
    \E text \in Texts : rt = [RouteOff EXCEPT !.pc = "detect", !.heard = text]

\* action_data = self._detect_intent(text); if action_data: router.execute(...),
\* else the turn goes on to the model
detect_intent_call ==
    /\ rt.pc = "detect"
    /\ LET action_data == detect_intent_text(rt.heard)
       IN rt' = [rt EXCEPT !.action_data = action_data,
                           !.pc = IF action_data = NoRequest THEN "model" ELSE "resolve"]
    /\ UNCHANGED <<svcVars, appVars, seg, boot>>

InitIntent ==
    /\ SvcInit /\ AppInit /\ quota = 0 /\ seg = SegOff /\ boot = BootOff
    /\ IntentInit
NextIntent == detect_intent_call \/ execute_resolve \/ execute_dispatch \/ search_web
SpecIntent == InitIntent /\ [][NextIntent]_vars

InitApp == SvcInit /\ AppInit /\ quota = SoloTurns /\ seg = SegOff /\ boot = BootOff /\ rt = RouteOff
NextApp ==
    \/ UiNext
    \/ on_wake
    \/ on_wake_detected
    \/ ListenNext
    \/ ChatNext
    \/ EnvWake
SpecApp == InitApp /\ [][NextApp]_vars

InitSvc == SvcInit /\ AppInit /\ quota = 0 /\ seg = SegOff /\ boot = BootOff /\ rt = RouteOff
NextSvc == SvcNext \/ EnvSend \/ EnvTakeWake
SpecSvc == InitSvc /\ [][NextSvc]_vars

\* Two debug-send turns one after the other, without the microphone, on the
\* paths of chat_and_respond that speak without calling the model (a turn
\* that calls the model stays blocked in the call).
InitTwo == SvcInit /\ AppInit /\ quota = MaxTurns /\ seg = SegOff /\ boot = BootOff /\ rt = RouteOff
NextTwo ==
    \/ warmup
    \/ on_debug_send
    \/ update
    \/ tts_worker_pop
    \/ tts_worker_speak
    \/ tts_worker_done
    \/ \E t \in Threads :
          \/ chat_reset(t)
          \/ chat_reset_permanent(t)
          \/ chat_reset_speak(t)
          \/ chat_begin(t)
          \/ chat_nollm_speak(t)
          \/ thread_end(t)
SpecTwo == InitTwo /\ [][NextTwo]_vars

\* One foreground turn and the wake service together: the service handles
\* the pause and resume messages the turn sends.
InitArb == SvcInit /\ AppInit /\ quota = SoloTurns /\ seg = SegOff /\ boot = BootOff /\ rt = RouteOff
NextArb ==
    \/ warmup
    \/ update
    \/ on_mic_press
    \/ \E t \in Threads :
          \/ listen_pause(t)
          \/ listen_start(t)
          \/ listen_heard(t)
          \/ listen_finally(t)
          \/ chat_begin(t)
          \/ stream_next(t)
          \/ stream_end(t)
          \/ wait_for_tts(t)
          \/ chat_set_idle(t)
    \/ SvcDeliver
    \/ LoopTop
    \/ LoopPost
    \/ LoopWait
    \/ LoopInspect
    \/ LoopBackoff
    \/ ListenRunnable_check
    \/ ListenRunnable_start
    \/ StopListenRunnable_run
    \/ onResults
    \/ onError
SpecArb == InitArb /\ [][NextArb]_vars

\* Memory across turns and launches: two debug-send turns that may overlap
\* after an interrupt, the saves of the app's lifecycle, and relaunches, from
\* every kind of memory.json the app can find (none, a bare system prompt, a
\* system prompt and more past turns than a save keeps).
InitMem ==
    /\ SvcInit
    /\ \E file \in StoredFiles : AppBoot(file)
    /\ quota = MaxTurns
    /\ seg = SegOff /\ boot = BootOff /\ rt = RouteOff
NextMem ==
    \/ warmup
    \/ on_debug_send
    \/ on_mic_press
    \/ update
    \/ BeMoreAgentApp_on_pause
    \/ launch
    \/ \E t \in Threads :
          \/ chat_reset(t)
          \/ chat_reset_permanent(t)
          \/ chat_reset_speak(t)
          \/ chat_begin(t)
          \/ chat_nollm_speak(t)
          \/ thread_end(t)
SpecMem == InitMem /\ [][NextMem]_vars

\* The stream loop of chat_and_respond as a function of the chunks the model
\* produces: every stream of at most MaxStream chunks, and the six-chunk
\* greeting.
InitSeg == SvcInit /\ AppInit /\ quota = 0 /\ SegInit /\ boot = BootOff /\ rt = RouteOff
NextSeg == stream_chunk \/ stream_flush
SpecSeg == InitSeg /\ [][NextSeg]_vars

\* A debug-send turn that may be interrupted, and a turn started from the mic
\* button after it: the recognizer hears nothing or a text, and a turn that
\* calls the model stays blocked in the call.
\* two debug-send turns that may overlap, followed into the stream loop and
\* no further; the speech worker is left asleep
InitLost == SvcInit /\ AppInit /\ quota = MaxTurns /\ seg = SegOff /\ boot = BootOff /\ rt = RouteOff
NextLost ==
    \/ warmup
    \/ on_debug_send
    \/ on_mic_press
    \/ update
    \/ \E t \in Threads :
          \/ chat_begin(t)
          \/ stream_next(t)
          \/ stream_body(t)
SpecLost == InitLost /\ [][NextLost]_vars

\* one turn at a time, with _wait_for_tts followed read by read
InitWait == SvcInit /\ AppInit /\ quota = SoloTurns /\ seg = SegOff /\ boot = BootOff /\ rt = RouteOff
NextWait ==
    \/ UiNext
    \/ ListenNext
    \/ \E t \in Threads :
          \/ chat_reset(t)
          \/ chat_reset_permanent(t)
          \/ chat_reset_speak(t)
          \/ chat_begin(t)
          \/ chat_nollm_speak(t)
          \/ handle_tool_result(t)
          \/ capture_image(t)
          \/ summarize(t)
          \/ stream_next(t)
          \/ stream_body(t)
          \/ stream_end(t)
          \/ wait_for_tts_lock(t)
          \/ wait_for_tts_flag(t)
          \/ chat_set_idle(t)
          \/ chat_error(t)
          \/ chat_error_recover(t)
          \/ thread_end(t)
SpecWait == InitWait /\ [][NextWait]_vars

InitHear == SvcInit /\ AppInit /\ quota = MaxTurns /\ seg = SegOff /\ boot = BootOff /\ rt = RouteOff
NextHear ==
    \/ warmup
    \/ on_debug_send
    \/ on_mic_press
    \/ update
    \/ \E t \in Threads :
          \/ listen_pause(t)
          \/ listen_start(t)
          \/ listen_heard(t)
          \/ listen_finally(t)
          \/ chat_reset(t)
          \/ chat_reset_permanent(t)
          \/ chat_reset_speak(t)
          \/ chat_begin(t)
          \/ chat_nollm_speak(t)
          \/ thread_end(t)
SpecHear == InitHear /\ [][NextHear]_vars

\* _warmup step by step, with the Clock applying the updates it schedules and
\* a wake signal that may arrive meanwhile. The thread's steps and the Clock's
\* callbacks are always eventually run.
InitWarm == SvcInit /\ AppInit /\ quota = 0 /\ seg = SegOff /\ BootInit /\ rt = RouteOff
NextWarm ==
    \/ warmup_stt
    \/ warmup_tts
    \/ warmup_worker
    \/ warmup_progress
    \/ warmup_llm
    \/ warmup_camera
    \/ warmup_ready
    \/ update
    \/ EnvWake
    \/ on_wake
    \/ on_wake_detected
SpecWarm ==
    /\ InitWarm
    /\ [][NextWarm]_vars
    /\ WF_vars(warmup_stt) /\ WF_vars(warmup_tts) /\ WF_vars(warmup_worker)
    /\ WF_vars(warmup_llm) /\ WF_vars(warmup_camera) /\ WF_vars(warmup_ready)
    /\ WF_vars(update) /\ WF_vars(on_wake_detected)

\* One turn, started from the mic button or the debug input, with the mic
\* button free to interrupt it. The turn threads, the speech worker and the
\* Clock's callbacks are always eventually run; the user's actions are not
\* forced.
InitCam == SvcInit /\ AppInit /\ quota = SoloTurns /\ seg = SegOff /\ boot = BootOff /\ rt = RouteOff
NextCam ==
    \/ UiNext
    \/ ListenNext
    \/ ChatNext
SpecCam ==
    /\ InitCam
    /\ [][NextCam]_vars
    /\ WF_vars(warmup) /\ WF_vars(update)
    /\ WF_vars(tts_worker_pop) /\ WF_vars(tts_worker_speak) /\ WF_vars(tts_worker_done)
    /\ WF_vars(ListenNext) /\ WF_vars(ChatNext)

\* an ERROR update by turn t is displayed or waits on the Clock
Errs(t) ==
    \/ current_state = ERROR /\ setBy = t
    \/ \E i \in DOMAIN clock : clock[i].s = ERROR /\ clock[i].by = t

\* the end of a stream in action mode, told by the outcomes of _extract_json
\* that count as a parsed object (routed) and those that do not (unsure)
ActionEnd(routable, unusable) ==
    \A t \in Threads :
       /\ (th[t].pc = "stream_end" /\ th[t].is_action_mode /\ th'[t].pc # "stream_end") =>
             \/ /\ th'[t].parsed \in routable
                /\ th'[t].routed = 1
                /\ th'[t].pc = "exec"
             \/ /\ th'[t].parsed \in unusable
                /\ th'[t].nenq = th[t].nenq + 1
                /\ tts_queue' = Append(tts_queue, Utterance(t, Unsure))
       /\ th[t].parsed \in routable => th'[t].routed = 1
       /\ th'[t].parsed \in unusable =>
             /\ th'[t].routed = 0
             /\ th[t].parsed \in unusable => th'[t].nenq = th[t].nenq
             /\ th'[t].pc \in {"wait", "set_idle", "return", "finally", "done"}
             /\ ~Errs(t)'
             /\ \A i \in DOMAIN session_memory' :
                   ~(session_memory'[i].role = "assistant"
                        /\ session_memory'[i].turn = t)
             /\ (th[t].pc = "set_idle" /\ th'[t].pc # "set_idle") =>
                   clock' = set_state(clock, IDLE, t)

\* C25 as stated: at the end of a stream in action mode, when no JSON object
\* can be parsed from the accumulated response the turn enqueues exactly one
\* "unsure" utterance, calls the router not at all, appends no assistant turn,
\* neither raises into the error path nor schedules ERROR, and goes on to set
\* IDLE; when an object is parsed, the empty object included, it is handed to
\* the router exactly once.
C25_ParsedObjectIsRouted == [][ActionEnd({"object", "empty"}, {"none"})]_vars

\* C25 amended: the same, with the empty object on the "unsure" side: only a
\* non-empty parsed object is handed to the router, exactly once.
C25_NonEmptyObjectIsRouted == [][ActionEnd({"object"}, {"empty", "none"})]_vars

\* the model streamed an action whose object is empty; the turn spoke
\* "unsure", was never routed, has ended, and the app is back in IDLE
C25_Witness ==
    \E t \in Threads :
        /\ th[t].parsed = "empty"
        /\ th[t].pc = "done"
        /\ th[t].routed = 0
        /\ th[t].nenq = 1
        /\ ~th[t].saw /\ ~interrupted
        /\ session_memory = <<[role |-> "user", turn |-> t, content |-> <<"chat">>]>>
        /\ current_state = IDLE /\ clock = <<>>
        /\ worker.pc = "poll" /\ tts_queue = <<>>

\* the places of turn t's assistant turns in a session memory
Said(t, sm) == {i \in DOMAIN sm : sm[i].role = "assistant" /\ sm[i].turn = t}

\* C26: a turn appends its user turn when it starts its stream; every chunk
\* the loop consumes is added to the accumulated response; a streamed turn
\* that reaches the end of its stream outside action mode then, after that
\* user turn, appends one assistant turn, its only one, holding that
\* accumulated response; a turn whose stream is or ended in action mode has
\* no assistant turn holding the raw structured output.
C26_StreamedReplyIsRecorded ==
    [][\A t \in Threads :
          /\ (th[t].pc = "chat" /\ th'[t].pc = "stream") =>
                /\ session_memory' = Append(session_memory, UserTurn(t))
                /\ th'[t].ctx = "stream" /\ th'[t].full_response = <<>>
          /\ (th[t].pc = "body" /\ th'[t].pc # "body") =>
                th'[t].full_response = th[t].full_response \o <<th[t].chunk>>
          /\ (th[t].pc = "stream_end" /\ ~th[t].is_action_mode
                 /\ th'[t].pc # "stream_end") =>
                /\ th[t].ctx = "stream"
                /\ Said(t, session_memory) = {}
                /\ session_memory' =
                      Append(session_memory, AssistantTurn(t, th[t].full_response))
          /\ (th[t].ctx = "stream" /\ ~th[t].is_action_mode
                 /\ th[t].pc # "stream_end") =>
                Said(t, session_memory') \subseteq Said(t, session_memory)
          /\ Cardinality(Said(t, session_memory')) <= 1
          /\ (th'[t].is_action_mode \/ th'[t].parsed # None) =>
                \A i \in Said(t, session_memory') :
                   /\ session_memory'[i].content # th'[t].full_response
                   /\ \A k \in DOMAIN session_memory'[i].content :
                         session_memory'[i].content[k] # "json"]_vars

\* a turn streamed a word and the end of a sentence, never entered action
\* mode, has ended, and the session memory holds its user turn followed by
\* the one assistant turn with both chunks
C26_Witness ==
    \E t \in Threads :
        /\ th[t].pc = "done"
        /\ th[t].parsed = None /\ th[t].routed = 0 /\ ~th[t].raised
        /\ session_memory =
              <<[role |-> "user", turn |-> t, content |-> <<"chat">>],
                AssistantTurn(t, <<"word", "sentence">>)>>

\* C27: once on_stop has cleared the running flag, the loop posts no further
\* ListenRunnable and startListening is not called again, no /wake_detected
\* is sent, the flag stays clear, and the loop moves only towards its cleanup
\* and exit.
C27_StopEndsListening ==
    [][~running =>
          /\ ~running'
          /\ looper' # Append(looper, "listen")
          /\ bgActive' => bgActive
          /\ wakesSent' = wakesSent
          /\ svc_pc \in {"cleanup", "exited"} => svc_pc' \in {"cleanup", "exited"}]_vars

\* some stretch of the text equals the phrase when case is ignored
HoldsPhrase(text, phrase) ==
    \E i \in 1 .. Len(text) :
        /\ i + Len(phrase) - 1 <= Len(text)
        /\ \A k \in 1 .. Len(phrase) : lower(text[i + k - 1]) = lower(phrase[k])

\* C28: a /wake_detected is sent only by the loop's inspection of a
\* transcript that a recognition attempt returned and that holds the wake
\* phrase as a substring when case is ignored, only with the paused flag
\* clear at that inspection, and never a second time for the same transcript.
C28_WakeOnlyForPhrase ==
    [][wakesSent' # wakesSent =>
          /\ wakesSent' = wakesSent + 1
          /\ toApp' = toApp + 1
          /\ svc_pc = "inspect"
          /\ result_holder.text \in Transcripts
          /\ HoldsPhrase(result_holder.text, wake_phrase)
          /\ ~result_holder.sent
          /\ ~paused]_vars

\* the loop sent /wake_detected for the transcript "a HEY", which is still
\* in the holder while the loop backs off
C28_Witness ==
    /\ wakesSent = 1
    /\ result_holder = [text |-> WakeText, error |-> 0, sent |-> TRUE]
    /\ svc_pc = "backoff"
    /\ running

\* One call of ActionRouter.execute on every request of Requests.
InitRoute ==
    /\ SvcInit /\ AppInit /\ quota = 0 /\ seg = SegOff /\ boot = BootOff
    /\ RouteInit
NextRoute == execute_resolve \/ execute_dispatch \/ search_web
SpecRoute == InitRoute /\ [][NextRoute]_vars

\* C29: execute does not raise, and what it returns is one of the six
\* outcomes (chat fallback, image capture triggered, invalid action, search
\* empty, search error, a raw result text), whatever the request's action,
\* value and query are: missing, null, a number or a string.
C29_ExecuteIsTotal ==
    /\ rt.pc # "raised"
    /\ rt.pc = "returned" => rt.result \in ToolResults

\* alias resolution of a raw name: lower-case, trim, look up
Resolve(name) ==
    LET n == strip(Lowered(name)) IN Get(ALIASES, n, n)

\* C30: once execute has resolved a raw action name, the action is one of
\* get_time, search_web and capture_image when the lower-cased, trimmed name
\* is an alias key or a valid action, and is that name otherwise; resolving
\* the action again gives the action; every alias target is a valid action
\* and no valid action is an alias key.
C30_AliasResolution ==
    rt.pc \in {"dispatch", "search", "returned"} =>
        /\ rt.raw_action = strip(Lowered(rt.action_data.action.s))
        /\ IF rt.raw_action \in DOMAIN ALIASES \cup VALID_TOOLS
              THEN rt.action \in VALID_TOOLS
              ELSE rt.action = rt.raw_action
        /\ Resolve(rt.action) = rt.action
        /\ Resolve(rt.action_data.action.s) = rt.action
        /\ \A k \in DOMAIN ALIASES : ALIASES[k] \in VALID_TOOLS
        /\ VALID_TOOLS \cap DOMAIN ALIASES = {}

\* the request {"action": " See\t"} was resolved through the alias table to
\* capture_image and answered
C30_Witness ==
    /\ rt.pc = "returned"
    /\ rt.action_data.action = Str(<<" ", "S", "e", "e", "\t">>)
    /\ rt.raw_action = <<"s", "e", "e">>
    /\ rt.action = N_capture_image
    /\ rt.result = IMAGE_CAPTURE_TRIGGERED

\* C31: a call of _search_web never raises; it returns SEARCH_ERROR whenever
\* the collaborator failed (creating the client, the news query or the text
\* query raised); it returns SEARCH_EMPTY only when the news query and the
\* text query both completed and gave nothing; the text query is tried only
\* when the news query gave no result.
C31_SearchFailureIsError ==
    (rt.pc = "returned" /\ rt.web.client # "unused") =>
        /\ rt.result \in {RAW_RESULT, SEARCH_EMPTY, SEARCH_ERROR}
        /\ ("raise" \in {rt.web.client, rt.web.news, rt.web.text}) =>
              rt.result = SEARCH_ERROR
        /\ rt.result = SEARCH_EMPTY => (rt.web.news = "none" /\ rt.web.text = "none")
        /\ rt.web.text # "unasked" => rt.web.news \in {"none", "raise"}

\* the text has a whitespace character with other characters on both sides
SeveralWords(s) ==
    \E i, j, k \in DOMAIN s :
        /\ i < j /\ j < k
        /\ s[i] \notin Whitespace /\ s[j] \in Whitespace /\ s[k] \notin Whitespace

C33_FirstRuleWins ==
    LET t == strip(Lowered(rt.heard))
        time == \E trigger \in time_triggers : Contains(t, trigger)
        camera == \E trigger \in camera_triggers : Contains(t, trigger)
        search == search_pattern_1(t) # <<>> \/ search_pattern_2(t) # <<>>
        found == rt.action_data
    IN rt.pc \notin {"off", "detect"} =>
        /\ time => found = Intent(N_get_time, <<"n", "o", "w">>)
        /\ (camera /\ ~time) => found.action = Str(N_capture_image)
        /\ found.action = Str(N_search_web) =>
              /\ search /\ ~time /\ ~camera
              /\ found.value.t = "str" /\ Len(found.value.s) > 2
        /\ (~time /\ ~camera /\ ~search) => found = NoRequest
        /\ found.action \in {Absent, Str(N_get_time), Str(N_capture_image), Str(N_search_web)}
        /\ rt.heard = <<"w", "h", "a", "t", " ", "t", "i", "m", "e", " ", "i", "s", " ", "i", "t">>
              => found = Intent(N_get_time, <<"n", "o", "w">>)

\* a text with both a camera phrase and a time phrase was answered with the
\* time
C33_Witness ==
    /\ rt.pc = "returned"
    /\ \E trigger \in camera_triggers : Contains(strip(Lowered(rt.heard)), trigger)
    /\ \E trigger \in time_triggers : Contains(strip(Lowered(rt.heard)), trigger)
    /\ rt.action = N_get_time
    /\ rt.result = RAW_RESULT

\* C34: once an interrupt has set the flag, cleared the queue and stopped
\* the synthesis, the speech worker begins no utterance that it had dequeued
\* before the interrupt: an item popped just before the clear is not spoken
\* afterwards.
C34_NoSpeechAfterInterrupt ==
    [][(worker.pc = "popped" /\ worker'.pc = "speaking") =>
          worker.text.n \notin th[worker.text.turn].kept]_vars

\* C35: at most one foreground turn thread is running at any time: no turn
\* starts while an earlier one, interrupted or triggered in the same UI tick,
\* has not returned.
C35_OneTurnAtATime ==
    Cardinality({t \in Threads : Alive(t)}) <= 1

\* turn t was running when an interrupt came, has not seen the flag, and the
\* flag has been cleared since
Lost(t) == Alive(t) /\ th[t].pre # "no" /\ ~th[t].saw /\ ~interrupted

\* C36: an interrupt is never lost: once a new turn has cleared the interrupt
\* flag at its start, an earlier interrupted turn that is still running and
\* reads the flag at the top of its stream loop does not take another token
\* as if it had not been interrupted.
C36_InterruptNotLost ==
    [][\A t \in Threads :
          (Lost(t) /\ th[t].pc = "stream") => th'[t].pc # "body"]_vars

\* C37: every turn that was started brings BotState back to IDLE without a
\* further user action, whichever path it takes: once the turn threads have
\* ended and the Clock has run every update they scheduled, BotState is IDLE.
C37_TurnEndsIdle ==
    (nstarted > 0 /\ clock = <<>> /\ \A t \in Threads : ~Alive(t)) =>
        current_state = IDLE

\* C38: when _wait_for_tts returns without having found the interrupt flag
\* set, every utterance the turn enqueued before the call is through: none of
\* them stands in the queue and the worker is not between popping one of
\* them and finishing it.
C38_WaitReturnsAfterDrain ==
    [][\A t \in Threads :
          (th[t].pc = "wait_flag" /\ th'[t].pc = "set_idle") => Unspoken(t) = {}]_vars

\* a turn that enqueued speech has left _wait_for_tts on the empty queue and
\* the clear tts_active, with no interrupt
C38_Witness ==
    \E t \in Threads :
        /\ th[t].pc = "set_idle"
        /\ th[t].queue_empty
        /\ th[t].nenq > 0
        /\ ~th[t].saw
        /\ th[t].pre = "no"

\* C39: whenever a turn has finished, that is, the update it scheduled has
\* brought BotState back to IDLE or to ERROR, the thinking-sound flag is
\* clear, whatever the turn's outcome was.
C39_ThinkingSoundEnds ==
    \A t \in Threads :
        (setBy = t /\ current_state \in {IDLE, ERROR}) => ~thinking_sound_active

\* memory.json after the step holds the first turn of perm, then the last 10
\* turns of the rest of perm followed by sess
Persisted(perm, sess) ==
    /\ perm # <<>>
    /\ memory_file' = <<perm[1]>> \o LastN(Tail(perm) \o sess, HistoryLimit)

====
